---------------------------- MODULE Spec2Model ----------------------------
(***************************************************************************)
(* A model of the HTMS compiler front end (htms-compiler): the scanner,    *)
(* the recursive-descent parser, the three-pass semantic analyzer and the  *)
(* driver compile_with_options that sequences them.                        *)
(*                                                                         *)
(* Text is modelled as a sequence of one-character strings, so that        *)
(* slicing, prefix tests and concatenation are computed, not assumed.      *)
(***************************************************************************)
EXTENDS Integers, Sequences, FiniteSets, TLC

VARIABLES
    program,    \* analyzer: the Program (AST) handed to analyze
    ana,        \* analyzer: the Analyzer struct [symbols, diagnostics]
    apc,        \* analyzer: the pass analyze() is about to run
    runs,       \* analyzer: the diagnostic lists of the completed runs on `program`
    source,     \* scanner and driver: the source text, a sequence of bytes
    scan,       \* scanner: the locals of tokenize() while its loop runs
    lexed,      \* scanner: what tokenize() returned, once it has
    overflow_checks, \* the build: whether integer overflow panics (debug) or wraps
    parser_tokens, \* parser: the token slice given to Parser::new
    parser,     \* parser: the Parser struct while the loop of parse() runs
    parsed,     \* parser: what parse(), or a single production, returned
    comp        \* driver: the locals of compile_with_options() and its result

anaVars == <<program, ana, apc, runs>>
lexVars == <<source, scan, lexed, overflow_checks>>
parVars == <<parser_tokens, parser, parsed>>
vars == <<program, ana, apc, runs, source, scan, lexed, overflow_checks, comp,
          parser_tokens, parser, parsed>>

(***************************************************************************)
(* Bounds of the model.                                                    *)
(***************************************************************************)
MaxDecls == 3      \* declarations in a program of the wide family
MaxDepth == 3      \* nesting depth of a body in the deep family
MaxRefDecls == 2   \* declarations in a program whose every body may hold a reference
MaxChunks == 4     \* pieces of text in a source given to the scanner
MaxItems == 2      \* pieces of text in a source given to the driver
MaxParseItems == 3 \* pieces of text in a source given to the parser
MaxOps == 4        \* operators in an expression given to the parser

(***************************************************************************)
(* Generic helpers.                                                        *)
(***************************************************************************)
Range(s) == {s[i] : i \in 1..Len(s)}

SeqsUpTo(S, n) == UNION {[1..k -> S] : k \in 0..n}

\* The sequences that enumerate each element of the finite set S once.
Orders(S) == {o \in [1..Cardinality(S) -> S] : Range(o) = S}

MapPut(m, k, v) == [x \in DOMAIN m \cup {k} |-> IF x = k THEN v ELSE m[x]]

EmptyMap == [x \in {} |-> 0]

(***************************************************************************)
(* lib.rs: Severity, Diagnostic.                                           *)
(***************************************************************************)
Diagnostic(severity, message, location, code) ==
    [severity |-> severity, message |-> message, location |-> location, code |-> code]

\* A formatted message: the format string and the value put in its '{}'.
Msg(text, arg) == [text |-> text, arg |-> arg]

DuplicateDeclarationText == "Duplicate declaration: '{}' is already defined"
UndefinedComponentText == "Undefined component: '{}'"
DuplicateRouteText == "Duplicate route: '{}' is already defined"
InvalidRouteText == "Invalid route: '{}' must start with '/'"
UnusedComponentText == "Component '{}' is declared but never used"
NoPagesText == "No pages defined - at least one page is recommended"

(***************************************************************************)
(* ast.rs: the AST.  A location is modelled by the path of the node in the *)
(* tree (the parser gives every node the span that starts at its first     *)
(* token, so two nodes never share a location).                            *)
(***************************************************************************)
NoAlternate == [kind |-> "None"]
AltBlock(nodes) == [kind |-> "Block", nodes |-> nodes]
AltElseIf(stmt) == [kind |-> "ElseIf", stmt |-> stmt]

TextNode(content, is_dynamic, loc) ==
    [type |-> "Text", content |-> content, is_dynamic |-> is_dynamic, loc |-> loc]
SlotNode(loc) == [type |-> "Slot", loc |-> loc]
ElementNode(tag, attributes, children, loc) ==
    [type |-> "Element", tag |-> tag, attributes |-> attributes,
     children |-> children, loc |-> loc]
ComponentRefNode(name, parameters, children, loc) ==
    [type |-> "ComponentRef", name |-> name, parameters |-> parameters,
     children |-> children, loc |-> loc]
IfNode(condition, consequent, alternate, loc) ==
    [type |-> "If", condition |-> condition, consequent |-> consequent,
     alternate |-> alternate, loc |-> loc]
EachNode(iterable, item_name, index_name, body, loc) ==
    [type |-> "Each", iterable |-> iterable, item_name |-> item_name,
     index_name |-> index_name, body |-> body, loc |-> loc]

ComponentDecl(name, parameters, attributes, body, loc) ==
    [type |-> "Component", name |-> name, parameters |-> parameters,
     attributes |-> attributes, body |-> body, loc |-> loc]
SectionDecl(name, body, loc) ==
    [type |-> "Section", name |-> name, body |-> body, loc |-> loc]
PageDecl(name, route, body, loc) ==
    [type |-> "Page", name |-> name, route |-> route, body |-> body, loc |-> loc]

Program(body, loc) == [body |-> body, loc |-> loc]

(***************************************************************************)
(* analyzer/symbols.rs: SymbolTable, a HashMap from name to Symbol.        *)
(***************************************************************************)
Symbol(name, kind, location) ==
    [name |-> name, kind |-> kind, location |-> location, usages |-> <<>>]

\* SymbolTable::new
NewSymbolTable == EmptyMap

\* SymbolTable::has
has(symbols, name) == name \in DOMAIN symbols

\* A faulty declare that lets a later declaration replace the earlier one.
declare_overwrite(symbols, name, kind, location) ==
    [ok |-> ~ has(symbols, name),
     symbols |-> MapPut(symbols, name, Symbol(name, kind, location)),
     msg |-> Msg(DuplicateDeclarationText, name)]

\* SymbolTable::declare: Err(msg) when the name is present, else insert.
declare(symbols, name, kind, location) ==
    IF has(symbols, name)
    THEN [ok |-> FALSE, symbols |-> symbols,
          msg |-> Msg(DuplicateDeclarationText, name)]
    ELSE [ok |-> TRUE,
          symbols |-> MapPut(symbols, name, Symbol(name, kind, location)),
          msg |-> Msg(DuplicateDeclarationText, name)]

\* SymbolTable::add_usage
add_usage(symbols, name, location) ==
    IF has(symbols, name)
    THEN [symbols EXCEPT ![name].usages = Append(@, location)]
    ELSE symbols

\* SymbolTable::by_kind, as the set of names it yields (only counted by callers)
by_kind(symbols, kind) == {n \in DOMAIN symbols : symbols[n].kind = kind}

(***************************************************************************)
(* analyzer/resolver.rs: Analyzer.                                         *)
(***************************************************************************)
NewAnalyzer == [symbols |-> NewSymbolTable, diagnostics |-> <<>>]

\* Analyzer::error
error(a, message, location) ==
    [a EXCEPT !.diagnostics = Append(@, Diagnostic("Error", message, location, "E003"))]

\* A faulty warning that pushes its diagnostic with the code of an error.
warning_with_error_code(a, message, location) ==
    [a EXCEPT !.diagnostics = Append(@, Diagnostic("Warning", message, location, "E003"))]

\* Analyzer::warning
warning(a, message, location) ==
    [a EXCEPT !.diagnostics = Append(@, Diagnostic("Warning", message, location, "W001"))]

\* The SymbolKind a declaration is declared with.
KindOf(decl) == decl.type

\* One iteration of the loop of collect_declarations.
collect_declaration(a, decl) ==
    LET r == declare(a.symbols, decl.name, KindOf(decl), decl.loc)
        a1 == [a EXCEPT !.symbols = r.symbols]   \* declare works on &mut self
    IN  IF r.ok THEN a1 ELSE error(a1, r.msg, decl.loc)

RECURSIVE collect_from(_, _, _)
collect_from(a, body, i) ==
    IF i > Len(body) THEN a
    ELSE collect_from(collect_declaration(a, body[i]), body, i + 1)

\* Analyzer::collect_declarations (pass 1)
collect_declarations(a, prog) == collect_from(a, prog.body, 1)


RECURSIVE resolve_nodes(_, _, _), resolve_node(_, _)

\* Analyzer::resolve_node
resolve_node(a, node) ==
    CASE node.type = "Element" -> resolve_nodes(a, node.children, 1)
      [] node.type = "ComponentRef" ->
            LET a1 == IF ~ has(a.symbols, node.name)
                      THEN error(a, Msg(UndefinedComponentText, node.name), node.loc)
                      ELSE [a EXCEPT !.symbols = add_usage(@, node.name, node.loc)]
            IN  resolve_nodes(a1, node.children, 1)
      [] node.type = "If" ->
            LET a1 == resolve_nodes(a, node.consequent, 1)
                alt == node.alternate
            IN  IF alt.kind = "None" THEN a1
                ELSE IF alt.kind = "Block" THEN resolve_nodes(a1, alt.nodes, 1)
                ELSE \* Alternate::ElseIf(elif)
                     LET elif == alt.stmt
                         a2 == resolve_nodes(a1, elif.consequent, 1)
                     IN  IF elif.alternate.kind = "None" THEN a2
                         ELSE IF elif.alternate.kind = "Block"
                              THEN resolve_nodes(a2, elif.alternate.nodes, 1)
                              ELSE a2   \* Alternate::ElseIf(_) => {}
      [] node.type = "Each" -> resolve_nodes(a, node.body, 1)
      [] node.type \in {"Text", "Slot"} -> a

\* Analyzer::resolve_nodes, from the i-th node on
resolve_nodes(a, nodes, i) ==
    IF i > Len(nodes) THEN a
    ELSE resolve_nodes(resolve_node(a, nodes[i]), nodes, i + 1)

RECURSIVE resolve_from(_, _, _)
resolve_from(a, body, i) ==
    IF i > Len(body) THEN a
    ELSE resolve_from(resolve_nodes(a, body[i].body, 1), body, i + 1)

\* Analyzer::resolve_references (pass 2)
resolve_references(a, prog) == resolve_from(a, prog.body, 1)

\* str::starts_with(char)
starts_with(s, c) == Len(s) >= 1 /\ s[1] = c

\* A faulty route check that validates the format before looking for a duplicate.
validate_route_format_first(st, decl) ==
    IF decl.type # "Page" THEN st
    ELSE LET a1 == IF ~ starts_with(decl.route, "/")
                   THEN error(st.a, Msg(InvalidRouteText, decl.route), decl.loc)
                   ELSE st.a
         IN  IF decl.route \in DOMAIN st.routes
             THEN [st EXCEPT !.a = error(a1, Msg(DuplicateRouteText, decl.route), decl.loc)]
             ELSE [a |-> a1, routes |-> MapPut(st.routes, decl.route, decl.loc)]

\* A faulty route check that records a route as seen only when it is valid.
validate_route_valid_only_seen(st, decl) ==
    IF decl.type # "Page" THEN st
    ELSE IF decl.route \in DOMAIN st.routes
         THEN [st EXCEPT !.a = error(@, Msg(DuplicateRouteText, decl.route), decl.loc)]
         ELSE IF ~ starts_with(decl.route, "/")
              THEN [st EXCEPT !.a = error(@, Msg(InvalidRouteText, decl.route), decl.loc)]
              ELSE [st EXCEPT !.routes = MapPut(@, decl.route, decl.loc)]

\* A faulty route check that walks the symbol table: a page whose declaration
\* pass 1 rejected is not a symbol, and is skipped.
validate_route_of_symbols(st, decl) ==
    IF decl.type # "Page" \/ st.a.symbols[decl.name].location # decl.loc THEN st
    ELSE IF decl.route \in DOMAIN st.routes
         THEN [st EXCEPT !.a = error(@, Msg(DuplicateRouteText, decl.route), decl.loc)]
         ELSE LET a1 == IF ~ starts_with(decl.route, "/")
                        THEN error(st.a, Msg(InvalidRouteText, decl.route), decl.loc)
                        ELSE st.a
              IN  [a |-> a1, routes |-> MapPut(st.routes, decl.route, decl.loc)]

\* One iteration of the route loop of validate; st = [a, routes].
validate_route(st, decl) ==
    IF decl.type # "Page" THEN st
    ELSE IF decl.route \in DOMAIN st.routes
         THEN [st EXCEPT !.a = error(@, Msg(DuplicateRouteText, decl.route), decl.loc)]
         ELSE LET a1 == IF ~ starts_with(decl.route, "/")
                        THEN error(st.a, Msg(InvalidRouteText, decl.route), decl.loc)
                        ELSE st.a
              IN  [a |-> a1, routes |-> MapPut(st.routes, decl.route, decl.loc)]

RECURSIVE validate_routes_from(_, _, _)
validate_routes_from(st, body, i) ==
    IF i > Len(body) THEN st
    ELSE validate_routes_from(validate_route(st, body[i]), body, i + 1)

\* The route loop of validate.
validate_routes(a, prog) ==
    validate_routes_from([a |-> a, routes |-> EmptyMap], prog.body, 1).a

\* The filter of validate: a Component symbol with no usage.
is_unused_component(symbol) ==
    symbol.kind = "Component" /\ symbol.usages = <<>>

RECURSIVE warn_unused_from(_, _, _)
warn_unused_from(a, unused, i) ==
    IF i > Len(unused) THEN a
    ELSE warn_unused_from(
            warning(a, Msg(UnusedComponentText, unused[i].name), unused[i].location),
            unused, i + 1)

\* The unused-component part of validate.  `all` is the sequence in which
\* SymbolTable::all (HashMap::values) yields the symbols.
validate_unused(a, all) ==
    warn_unused_from(a, SelectSeq(all, is_unused_component), 1)

\* The no-pages part of validate.
validate_no_pages(a, prog) ==
    IF Cardinality(by_kind(a.symbols, "Page")) = 0
    THEN warning(a, Msg(NoPagesText, <<>>), prog.loc)
    ELSE a

\* Analyzer::validate (pass 3)
validate(a, prog, all) ==
    validate_no_pages(validate_unused(validate_routes(a, prog), all), prog)

\* SymbolTable::all: the symbols in the iteration order of the HashMap, which
\* the standard library leaves unspecified (and seeds per table): any order.
AllOrders(symbols) ==
    {[i \in 1..Len(o) |-> symbols[o[i]]] : o \in Orders(DOMAIN symbols)}


(***************************************************************************)
(* The programs analyze is run on: wide programs (up to MaxDecls           *)
(* declarations, references in the last body), programs with a reference   *)
(* in every body, and deep programs (one declaration whose body nests up   *)
(* to MaxDepth constructs).                                                *)
(***************************************************************************)
Names == {<<"A">>, <<"B">>}
Routes == {<<"/">>, <<"x">>}
WrapName == <<"A">>
Cond == [type |-> "Identifier", name |-> <<"c">>]

LeafBodies(p) ==
    {<<>>, <<TextNode(<<"t">>, FALSE, p \o <<1>>), SlotNode(p \o <<2>>)>>}
    \cup {<<ComponentRefNode(n, <<>>, <<>>, p \o <<1>>)>> : n \in Names}

RECURSIVE Bodies(_, _), IfStmts(_, _)

\* The If statements at path p that nest at most d constructs, p included.
IfStmts(p, d) ==
    IF d = 0 THEN {}
    ELSE {IfNode(Cond, b, NoAlternate, p) : b \in Bodies(p \o <<1>>, d - 1)}
         \cup {IfNode(Cond, <<>>, AltBlock(b), p) : b \in Bodies(p \o <<2>>, d - 1)}
         \cup {IfNode(Cond, <<>>, AltElseIf(st), p) : st \in IfStmts(p \o <<2>>, d - 1)}

\* The node lists under the construct at path p that nest at most d constructs
\* around a leaf body.
Bodies(p, d) ==
    IF d = 0 THEN LeafBodies(p)
    ELSE LET q == p \o <<1>>
         IN  LeafBodies(p)
             \cup {<<ElementNode(<<"d">>, <<>>, b, q)>> : b \in Bodies(q, d - 1)}
             \cup {<<EachNode(Cond, <<"i">>, <<>>, b, q)>> : b \in Bodies(q, d - 1)}
             \cup {<<ComponentRefNode(WrapName, <<>>, b, q)>> : b \in Bodies(q, d - 1)}
             \cup {<<st>> : st \in IfStmts(q, d)}

Heads ==
    [type : {"Component", "Section"}, name : Names, route : {<<>>}]
    \cup [type : {"Page"}, name : Names, route : Routes]

MakeDecl(h, body, i) ==
    CASE h.type = "Component" -> ComponentDecl(h.name, <<>>, <<>>, body, <<i>>)
      [] h.type = "Section" -> SectionDecl(h.name, body, <<i>>)
      [] h.type = "Page" -> PageDecl(h.name, h.route, body, <<i>>)

RefCores == {<<>>} \cup {<<n>> : n \in Names}

CoreBody(c, i) ==
    IF c = <<>> THEN <<>> ELSE <<ComponentRefNode(c[1], <<>>, <<>>, <<i, 1>>)>>

\* Up to MaxRefDecls declarations, each with an empty body or one ComponentRef.
RefPrograms ==
    {Program([i \in 1..Len(hs) |-> MakeDecl(hs[i].head, CoreBody(hs[i].core, i), i)], <<>>) :
        hs \in SeqsUpTo([head : Heads, core : RefCores], MaxRefDecls)}

\* Up to MaxDecls declarations; the last one holds up to two ComponentRefs.
RefList(ns, i) ==
    [k \in 1..Len(ns) |-> ComponentRefNode(ns[k], <<>>, <<>>, <<i, k>>)]

WidePrograms ==
    {Program([i \in 1..Len(hs) |->
                 MakeDecl(hs[i], IF i = Len(hs) THEN RefList(ns, i) ELSE <<>>, i)], <<>>) :
        hs \in SeqsUpTo(Heads, MaxDecls), ns \in SeqsUpTo(Names, 2)}

DeepPrograms ==
    {Program(<<MakeDecl(h, b, 1)>>, <<>>) : h \in Heads, b \in Bodies(<<1>>, MaxDepth)}

(***************************************************************************)
(* The analyzer as a state machine: analyze() runs its three passes on     *)
(* `program`; the caller may call analyze again on the same program.       *)
(***************************************************************************)
AnalyzeInit ==
    /\ \/ program \in WidePrograms
       \/ program \in RefPrograms
       \/ program \in DeepPrograms
    /\ ana = NewAnalyzer
    /\ apc = "collect"
    /\ runs = <<>>
    /\ source = <<>>
    /\ scan = <<>>
    /\ lexed = <<>>
    /\ overflow_checks = FALSE
    /\ comp = <<>>
    /\ parser_tokens = <<>>
    /\ parser = <<>>
    /\ parsed = <<>>

\* analyze(): self.collect_declarations(program)
CollectDeclarations ==
    /\ apc = "collect"
    /\ ana' = collect_declarations(ana, program)
    /\ apc' = "resolve"
    /\ UNCHANGED <<program, runs, lexVars, comp, parVars>>

\* analyze(): self.resolve_references(program)
ResolveReferences ==
    /\ apc = "resolve"
    /\ ana' = resolve_references(ana, program)
    /\ apc' = "validate"
    /\ UNCHANGED <<program, runs, lexVars, comp, parVars>>

\* analyze(): self.validate(program), and the return of (symbols, diagnostics)
Validate ==
    /\ apc = "validate"
    /\ \E all \in AllOrders(ana.symbols) :
          /\ ana' = validate(ana, program, all)
          /\ runs' = Append(runs, ana'.diagnostics)
    /\ apc' = "done"
    /\ UNCHANGED <<program, lexVars, comp, parVars>>

\* A further call of analyze on the same program: a fresh Analyzer::new().
AnalyzeAgain ==
    /\ apc = "done"
    /\ Len(runs) = 1
    /\ ana' = NewAnalyzer
    /\ apc' = "collect"
    /\ UNCHANGED <<program, runs, lexVars, comp, parVars>>

AnalyzeNext ==
    \/ CollectDeclarations
    \/ ResolveReferences
    \/ Validate
    \/ AnalyzeAgain

SpecAnalyze == AnalyzeInit /\ [][AnalyzeNext]_vars


(***************************************************************************)
(* What the analyzer claims speak of, read off the program itself.         *)
(***************************************************************************)
RECURSIVE RefsIn(_), RefsOfNode(_), RefsOfIf(_)

\* Every ComponentRef [name, loc] reachable from a node list.
RefsIn(nodes) == UNION {RefsOfNode(nodes[i]) : i \in 1..Len(nodes)}

RefsOfNode(n) ==
    IF n.type = "Element" THEN RefsIn(n.children)
    ELSE IF n.type = "ComponentRef"
         THEN {[name |-> n.name, loc |-> n.loc]} \cup RefsIn(n.children)
    ELSE IF n.type = "If" THEN RefsOfIf(n)
    ELSE IF n.type = "Each" THEN RefsIn(n.body)
    ELSE {}

\* ... through an else-if chain of any length.
RefsOfIf(st) ==
    RefsIn(st.consequent)
    \cup (IF st.alternate.kind = "Block" THEN RefsIn(st.alternate.nodes)
          ELSE IF st.alternate.kind = "ElseIf" THEN RefsOfIf(st.alternate.stmt)
          ELSE {})

ProgramRefs == UNION {RefsIn(program.body[i].body) : i \in 1..Len(program.body)}

Decls == program.body
DeclIdx == 1..Len(program.body)
PageIdx == {i \in DeclIdx : Decls[i].type = "Page"}
DeclaredNames == {Decls[i].name : i \in DeclIdx}
FirstDecl(name) == Decls[CHOOSE i \in DeclIdx :
                            /\ Decls[i].name = name
                            /\ \A j \in 1..(i - 1) : Decls[j].name # name]
UniqueNames == \A i, j \in DeclIdx : Decls[i].name = Decls[j].name => i = j

Diags == ana.diagnostics
NumDiags(text, arg) ==
    Cardinality({k \in 1..Len(Diags) :
                    Diags[k].message = Msg(text, arg)})
NumDiagsAt(text, arg, loc) ==
    Cardinality({k \in 1..Len(Diags) :
                    Diags[k].message = Msg(text, arg) /\ Diags[k].location = loc})
Occurrences(s, x) == Cardinality({k \in 1..Len(s) : s[k] = x})

\* C3: after analyze, every ComponentRef reachable from a declaration body
\* (through element children, ComponentRef children, Each bodies, If
\* consequents and alternates, else-if chains of any length) was looked up
\* exactly once: one 'Undefined component' error at its location if its name
\* is not declared, else its location once in the symbol's usages.
C3_EveryRefLookedUpOnce ==
    apc = "done" =>
        \A r \in ProgramRefs :
            IF r.name \notin DOMAIN ana.symbols
            THEN NumDiagsAt(UndefinedComponentText, r.name, r.loc) = 1
            ELSE Occurrences(ana.symbols[r.name].usages, r.loc) = 1

\* C5: after pass 1 the table holds one Symbol per declared name, that of the
\* first declaration of the name (its kind and location, across Component,
\* Section and Page together), and the diagnostics are exactly one 'Duplicate
\* declaration' error per later declaration of a name, in source order.
C5_FirstDeclarationWins ==
    apc = "resolve" =>
        /\ DOMAIN ana.symbols = DeclaredNames
        /\ \A n \in DeclaredNames :
              ana.symbols[n] = Symbol(n, FirstDecl(n).type, FirstDecl(n).loc)
        /\ LET later == SelectSeq([i \in DeclIdx |-> i],
                            LAMBDA i : \E j \in 1..(i - 1) : Decls[j].name = Decls[i].name)
           IN  Diags = [k \in 1..Len(later) |->
                          Diagnostic("Error",
                                     Msg(DuplicateDeclarationText, Decls[later[k]].name),
                                     Decls[later[k]].loc, "E003")]

\* C5 witness: pass 1 has run on a program that declares one name three times,
\* the first two with different kinds.
C5_Witness ==
    /\ apc = "resolve"
    /\ Len(Decls) = 3
    /\ Decls[1].name = Decls[2].name /\ Decls[2].name = Decls[3].name
    /\ Decls[1].type = "Section" /\ Decls[2].type = "Component"
    /\ Len(Diags) = 2


PagesWithRoute(r) == {i \in PageIdx : Decls[i].route = r}
PageRoutes == {Decls[i].route : i \in PageIdx}
FirstPageWithRoute(r) ==
    CHOOSE i \in PagesWithRoute(r) : \A j \in PagesWithRoute(r) : i <= j

\* C6 as claimed: a route carried by two page declarations gets exactly one
\* 'Duplicate route' error and no 'Invalid route' error, whether or not it
\* starts with '/'.
C6_OneDuplicateNoInvalid ==
    apc = "done" =>
        \A r \in PageRoutes :
            Cardinality(PagesWithRoute(r)) = 2 =>
                /\ NumDiags(DuplicateRouteText, r) = 1
                /\ NumDiags(InvalidRouteText, r) = 0

\* C6 amended: a route carried by k >= 2 page declarations gets exactly k - 1
\* 'Duplicate route' errors (one for two pages), and no 'Invalid route' error
\* if it starts with '/', else exactly one, at the first page that carries it.
C6_DuplicatesAndFirstInvalid ==
    apc = "done" =>
        \A r \in PageRoutes :
            Cardinality(PagesWithRoute(r)) >= 2 =>
                /\ NumDiags(DuplicateRouteText, r) = Cardinality(PagesWithRoute(r)) - 1
                /\ IF starts_with(r, "/")
                   THEN NumDiags(InvalidRouteText, r) = 0
                   ELSE /\ NumDiags(InvalidRouteText, r) = 1
                        /\ NumDiagsAt(InvalidRouteText, r,
                                      Decls[FirstPageWithRoute(r)].loc) = 1

\* C6 witness: analyze has finished on two pages that share a route that does
\* not start with '/', and on a third page with that route.
C6_Witness ==
    /\ apc = "done"
    /\ \E r \in PageRoutes :
          /\ ~ starts_with(r, "/")
          /\ Cardinality(PagesWithRoute(r)) = 3
          /\ NumDiags(DuplicateRouteText, r) = 2

IsRouteError(d) == d.message.text \in {DuplicateRouteText, InvalidRouteText}

\* The route errors the claim gives the i-th declaration.
RouteErrorsOf(i) ==
    IF i \notin PageIdx THEN <<>>
    ELSE IF \E j \in PageIdx : j < i /\ Decls[j].route = Decls[i].route
         THEN <<Diagnostic("Error", Msg(DuplicateRouteText, Decls[i].route),
                           Decls[i].loc, "E003")>>
         ELSE IF ~ starts_with(Decls[i].route, "/")
              THEN <<Diagnostic("Error", Msg(InvalidRouteText, Decls[i].route),
                                Decls[i].loc, "E003")>>
              ELSE <<>>

RECURSIVE RouteErrorsFrom(_)
RouteErrorsFrom(i) ==
    IF i > Len(Decls) THEN <<>> ELSE RouteErrorsOf(i) \o RouteErrorsFrom(i + 1)

\* C7: the route errors of analyze are, page by page in source order, at most
\* one per page: 'Duplicate route' exactly when an earlier page has the same
\* route, otherwise 'Invalid route' exactly when the route does not start
\* with '/'; never both for one page.
C7_OneRouteErrorPerPage ==
    apc = "done" => SelectSeq(Diags, IsRouteError) = RouteErrorsFrom(1)

\* C7 witness: analyze has finished on three pages of which the first raises
\* 'Invalid route', the second 'Duplicate route' and the third nothing.
C7_Witness ==
    /\ apc = "done"
    /\ Len(Decls) = 3 /\ PageIdx = {1, 2, 3}
    /\ Decls[1].route = <<"x">> /\ Decls[2].route = <<"x">> /\ Decls[3].route = <<"/">>
    /\ Len(SelectSeq(Diags, IsRouteError)) = 2

ComponentIdx == {i \in DeclIdx : Decls[i].type = "Component"}
ReferencedNames == {r.name : r \in ProgramRefs}
IsUnusedWarning(d) == d.message.text = UnusedComponentText

\* C8: with unique declaration names, N declared components and M of them
\* named by a ComponentRef somewhere, analyze reports exactly N - M 'declared
\* but never used' warnings: one per component no ComponentRef names, none
\* for a component some ComponentRef names.
C8_UnusedWarningsAreNMinusM ==
    (apc = "done" /\ UniqueNames) =>
        /\ Len(SelectSeq(Diags, IsUnusedWarning))
              = Cardinality(ComponentIdx)
                  - Cardinality({i \in ComponentIdx : Decls[i].name \in ReferencedNames})
        /\ \A i \in ComponentIdx :
              NumDiags(UnusedComponentText, Decls[i].name)
                  = IF Decls[i].name \in ReferencedNames THEN 0 ELSE 1

\* The pass that raises a diagnostic.
GroupOf(d) ==
    CASE d.message.text = DuplicateDeclarationText -> 1
      [] d.message.text = UndefinedComponentText -> 2
      [] IsRouteError(d) -> 3
      [] d.message.text = UnusedComponentText -> 4
      [] d.message.text = NoPagesText -> 5

\* Path a comes before path b in source order (a node before its children,
\* an earlier sibling before a later one).
RECURSIVE PathBefore(_, _)
PathBefore(a, b) ==
    IF a = <<>> THEN b # <<>>
    ELSE IF b = <<>> THEN FALSE
    ELSE IF a[1] # b[1] THEN a[1] < b[1]
    ELSE PathBefore(Tail(a), Tail(b))

\* C9: the diagnostics of analyze come pass by pass (duplicate declarations,
\* undefined components, route errors, unused components, no pages) and,
\* inside a pass, in the source order of the declarations or references they
\* are about; the unused-component warnings in declaration order.
C9_DiagnosticsInPassAndSourceOrder ==
    apc = "done" =>
        \A i, j \in 1..Len(Diags) :
            i < j =>
                /\ GroupOf(Diags[i]) <= GroupOf(Diags[j])
                /\ GroupOf(Diags[i]) = GroupOf(Diags[j])
                      => PathBefore(Diags[i].location, Diags[j].location)

\* C10: two runs of analyze on the same program return the same diagnostic
\* list, in the same order.
C10_RunsAgree ==
    \A i, j \in 1..Len(runs) : runs[i] = runs[j]

\* The declarations whose name an earlier declaration already has.
LaterDuplicates == {i \in DeclIdx : \E j \in 1..(i - 1) : Decls[j].name = Decls[i].name}

\* C16: analyze returns the diagnostics of its three passes together, pass
\* after pass, each pass over the whole program whatever the earlier passes
\* reported: one 'Duplicate declaration' error per later declaration of a
\* name, one 'Undefined component' error per ComponentRef of the program
\* whose name is not declared, and the route errors of every page.
C16_AllPassesReport ==
    apc = "done" =>
        /\ \A i \in LaterDuplicates :
              NumDiagsAt(DuplicateDeclarationText, Decls[i].name, Decls[i].loc) = 1
        /\ \A r \in ProgramRefs :
              r.name \notin DeclaredNames
                  => NumDiagsAt(UndefinedComponentText, r.name, r.loc) = 1
        /\ SelectSeq(Diags, IsRouteError) = RouteErrorsFrom(1)
        /\ \A i, j \in 1..Len(Diags) : i < j => GroupOf(Diags[i]) <= GroupOf(Diags[j])

\* The same statement for the programs outside the deep family (no else-if
\* chain of three Ifs).
C16_HoldsWithoutLongChains == program \in DeepPrograms \/ C16_AllPassesReport

\* analyze has finished on a program with a duplicate declaration, an
\* undefined component and an invalid route, and reports the three errors.
C16_ThreeErrorsTogether ==
    /\ apc = "done"
    /\ program \notin DeepPrograms
    /\ LaterDuplicates # {}
    /\ \E r \in ProgramRefs : r.name \notin DeclaredNames
    /\ \E k \in 1..Len(Diags) : Diags[k].message.text = DuplicateDeclarationText
    /\ \E k \in 1..Len(Diags) : Diags[k].message.text = UndefinedComponentText
    /\ \E k \in 1..Len(Diags) : Diags[k].message.text = InvalidRouteText

ErrorTexts ==
    {DuplicateDeclarationText, UndefinedComponentText, DuplicateRouteText, InvalidRouteText}
WarningTexts == {UnusedComponentText, NoPagesText}

\* C21: every diagnostic returned by analyze is an Error with code E003 or a
\* Warning with code W001 (never Info, never without a code): duplicate
\* declaration, undefined component, duplicate route and invalid route are
\* errors; unused component and no pages are warnings.
C21_SeverityAndCode ==
    \A r \in 1..Len(runs) : \A k \in 1..Len(runs[r]) :
        LET d == runs[r][k]
        IN  \/ d.severity = "Error" /\ d.code = "E003" /\ d.message.text \in ErrorTexts
            \/ d.severity = "Warning" /\ d.code = "W001" /\ d.message.text \in WarningTexts

\* analyze has returned the four errors and a warning together.
C21_Witness ==
    /\ apc = "done"
    /\ \A t \in ErrorTexts \cup {UnusedComponentText} :
          \E k \in 1..Len(Diags) : Diags[k].message.text = t
    /\ \E r \in 1..Len(runs) : runs[r] = Diags

\* Pass 2 has run: the symbol table has its final usages.
Resolved == apc \in {"validate", "done"}
SectionOrPage(name) ==
    name \in DeclaredNames /\ FirstDecl(name).type \in {"Section", "Page"}

\* C29: pass 2 resolves a ComponentRef against the whole shared namespace: a
\* ComponentRef whose name is declared as a Section or a Page raises no
\* 'Undefined component' error and its location is appended (once) to the
\* usages of that Section or Page symbol, while the usages of every Component
\* symbol hold only the locations of the ComponentRefs that name it.
C29_SharedNamespace ==
    Resolved =>
        /\ \A r \in ProgramRefs :
              SectionOrPage(r.name) =>
                  /\ NumDiagsAt(UndefinedComponentText, r.name, r.loc) = 0
                  /\ ana.symbols[r.name].kind = FirstDecl(r.name).type
                  /\ Occurrences(ana.symbols[r.name].usages, r.loc) = 1
        /\ \A n \in by_kind(ana.symbols, "Component") :
              \A k \in 1..Len(ana.symbols[n].usages) :
                  [name |-> n, loc |-> ana.symbols[n].usages[k]] \in ProgramRefs

\* The same statement for the programs outside the deep family (no else-if
\* chain of three Ifs).
C29_HoldsWithoutLongChains == program \in DeepPrograms \/ C29_SharedNamespace

\* Pass 2 has resolved a ComponentRef that names a Section or a Page, next to
\* a Component that is used and one that is not.
C29_SectionUsed ==
    /\ Resolved
    /\ program \notin DeepPrograms
    /\ \E r \in ProgramRefs :
          SectionOrPage(r.name) /\ ana.symbols[r.name].usages = <<r.loc>>
    /\ \E n \in by_kind(ana.symbols, "Component") : ana.symbols[n].usages = <<>>

\* The route errors analyze reports at the i-th declaration, in order.
RouteErrorsAt(i) ==
    LET AtDecl(d) == IsRouteError(d) /\ d.location = Decls[i].loc
    IN  SelectSeq(Diags, AtDecl)

\* C30: pass 3 validates the routes of the page declarations of the AST, not
\* of the symbol table: a page whose name pass 1 rejected as a duplicate
\* declaration has its route checked like any other page (it can raise a
\* route error), and its route counts as seen for later pages; a route
\* reported as invalid counts as seen too, so every later page with the route
\* of an earlier page, whatever that page raised, is reported as a duplicate.
C30_RoutesOfAstPages ==
    apc = "done" =>
        /\ \A i \in PageIdx \cap LaterDuplicates : RouteErrorsAt(i) = RouteErrorsOf(i)
        /\ \A i, j \in PageIdx :
              (i < j /\ Decls[i].route = Decls[j].route)
                  => NumDiagsAt(DuplicateRouteText, Decls[j].route, Decls[j].loc) = 1

\* analyze has finished on a page with a rejected name and a new, invalid
\* route, followed by a page with the same route: the first raised 'Invalid
\* route' next to its 'Duplicate declaration', the second 'Duplicate route'.
C30_Witness ==
    /\ apc = "done"
    /\ \E i \in PageIdx \cap LaterDuplicates : \E j \in PageIdx :
          /\ i < j /\ Decls[i].route = Decls[j].route
          /\ \A h \in PageIdx : h < i => Decls[h].route # Decls[i].route
          /\ NumDiagsAt(DuplicateDeclarationText, Decls[i].name, Decls[i].loc) = 1
          /\ NumDiagsAt(InvalidRouteText, Decls[i].route, Decls[i].loc) = 1
          /\ NumDiagsAt(DuplicateRouteText, Decls[j].route, Decls[j].loc) = 1

(***************************************************************************)
(* lexer/tokens.rs (not in the source tree): the Logos lexer TokenKind,    *)
(* modelled from the specification and from the tests.  The source is a    *)
(* sequence of bytes; offsets are 0-based byte offsets, spans half-open.   *)
(***************************************************************************)
Lower == {"a", "b", "c", "d", "e", "f", "g", "h", "i", "j", "k", "l", "m",
          "n", "o", "p", "q", "r", "s", "t", "u", "v", "w", "x", "y", "z"}
Upper == {"A", "B", "C", "D", "E", "F", "G", "H", "I", "J", "K", "L", "M",
          "N", "O", "P", "Q", "R", "S", "T", "U", "V", "W", "X", "Y", "Z"}
Digit == {"0", "1", "2", "3", "4", "5", "6", "7", "8", "9"}
IdentChar == Lower \cup Upper \cup Digit \cup {"_"}
Whitespace == {" ", "\t", "\r"}

\* The two bytes of a multi-byte character (U+00D7, the times sign).
LeadByte == "xC3"
ContByte == "x97"
TimesSign == <<LeadByte, ContByte>>

\* The byte at offset o, or "" past the end.
ByteAt(src, o) == IF o >= 0 /\ o < Len(src) THEN src[o + 1] ELSE ""

\* &source[a..b]
Slice(src, a, b) == SubSeq(src, a + 1, b)

\* Whether the bytes at offset o are the sequence w.
LooksAt(src, o, w) ==
    /\ o + Len(w) <= Len(src)
    /\ \A k \in 1..Len(w) : src[o + k] = w[k]

\* The first offset at or after o whose byte is not in the class.
RECURSIVE RunEnd(_, _, _)
RunEnd(src, o, class) ==
    IF o < Len(src) /\ src[o + 1] \in class THEN RunEnd(src, o + 1, class) ELSE o

\* The first offset at or after o where w starts, or -1.
RECURSIVE Find(_, _, _)
Find(src, o, w) ==
    IF o + Len(w) > Len(src) THEN -1
    ELSE IF LooksAt(src, o, w) THEN o
    ELSE Find(src, o + 1, w)

Keywords ==
    (<<"c", "o", "m", "p", "o", "n", "e", "n", "t">> :> "Component")
    @@ (<<"s", "e", "c", "t", "i", "o", "n">> :> "Section")
    @@ (<<"p", "a", "g", "e">> :> "Page")
    @@ (<<"a", "s">> :> "As")
    @@ (<<"t", "r", "u", "e">> :> "True")
    @@ (<<"f", "a", "l", "s", "e">> :> "False")

Directives ==
    <<[text |-> <<"@", "i", "f">>, kind |-> "If"],
      [text |-> <<"@", "e", "l", "s", "e">>, kind |-> "Else"],
      [text |-> <<"@", "e", "a", "c", "h">>, kind |-> "Each"],
      [text |-> <<"@", "s", "l", "o", "t">>, kind |-> "Slot"]>>

Punct2 ==
    <<[text |-> <<"{", "{">>, kind |-> "TextOpen"],
      [text |-> <<"}", "}">>, kind |-> "TextClose"],
      [text |-> <<"$", "{">>, kind |-> "InterpolationStart"],
      [text |-> <<"<", "=">>, kind |-> "Le"],
      [text |-> <<">", "=">>, kind |-> "Ge"],
      [text |-> <<"=", "=">>, kind |-> "Eq"],
      [text |-> <<"!", "=">>, kind |-> "Ne"],
      [text |-> <<"&", "&">>, kind |-> "And"],
      [text |-> <<"|", "|">>, kind |-> "Or"]>>

Punct1 ==
    ("{" :> "LBrace") @@ ("}" :> "RBrace") @@ ("(" :> "LParen") @@ (")" :> "RParen")
    @@ ("[" :> "LBracket") @@ ("]" :> "RBracket") @@ (":" :> "Colon")
    @@ ("," :> "Comma") @@ ("." :> "Dot") @@ ("?" :> "Question")
    @@ ("+" :> "Plus") @@ ("-" :> "Minus") @@ ("<" :> "Lt") @@ (">" :> "Gt")
    @@ ("\n" :> "Newline")

Lexeme(ok, kind, start, end) == [ok |-> ok, kind |-> kind, start |-> start, end |-> end]

\* The end of a context path that starts at o with "ctx": one or more
\* ".name" segments; o + 3 when there is none.
RECURSIVE PathEnd(_, _)
PathEnd(src, o) ==
    IF ByteAt(src, o) = "." /\ ByteAt(src, o + 1) \in (Lower \cup Upper \cup {"_"})
    THEN PathEnd(src, RunEnd(src, o + 1, IdentChar))
    ELSE o

\* The token or the error that starts at offset o < Len(src), where the byte
\* at o is not whitespace: the longest match of the token rules, an error
\* of one character when no rule matches.
LexAt(src, o) ==
    LET c == src[o + 1]
        two == SelectSeq(Punct2, LAMBDA t : LooksAt(src, o, t.text))
        dir == SelectSeq(Directives, LAMBDA t : LooksAt(src, o, t.text))
    IN  IF two # <<>> THEN Lexeme(TRUE, two[1].kind, o, o + 2)
        ELSE IF c \in DOMAIN Punct1 THEN Lexeme(TRUE, Punct1[c], o, o + 1)
        ELSE IF c = "@" /\ dir # <<>>
             THEN Lexeme(TRUE, dir[1].kind, o, o + Len(dir[1].text))
        ELSE IF c = "/" /\ ByteAt(src, o + 1) = "/"
             THEN LET nl == Find(src, o, <<"\n">>)
                  IN  Lexeme(TRUE, "LineComment", o, IF nl = -1 THEN Len(src) ELSE nl)
        ELSE IF c = "/" /\ ByteAt(src, o + 1) = "*" /\ Find(src, o + 2, <<"*", "/">>) # -1
             THEN Lexeme(TRUE, "BlockComment", o, Find(src, o + 2, <<"*", "/">>) + 2)
        ELSE IF c = "\"" /\ Find(src, o + 1, <<"\"">>) # -1
             THEN Lexeme(TRUE, "String", o, Find(src, o + 1, <<"\"">>) + 1)
        ELSE IF c \in Digit
             THEN LET e == RunEnd(src, o, Digit)
                  IN  IF ByteAt(src, e) = "." /\ ByteAt(src, e + 1) \in Digit
                      THEN Lexeme(TRUE, "Number", o, RunEnd(src, e + 1, Digit))
                      ELSE Lexeme(TRUE, "Number", o, e)
        ELSE IF c \in Upper
             THEN Lexeme(TRUE, "ComponentName", o, RunEnd(src, o, IdentChar))
        ELSE IF c \in Lower \cup {"_"}
             THEN LET e == RunEnd(src, o, IdentChar)
                      word == Slice(src, o, e)
                  IN  IF word = <<"c", "t", "x">> /\ PathEnd(src, e) > e
                      THEN Lexeme(TRUE, "ContextPath", o, PathEnd(src, e))
                      ELSE IF word \in DOMAIN Keywords
                           THEN Lexeme(TRUE, Keywords[word], o, e)
                           ELSE Lexeme(TRUE, "Identifier", o, e)
        ELSE IF c = LeadByte THEN Lexeme(FALSE, "Error", o, RunEnd(src, o + 1, {ContByte}))
        ELSE Lexeme(FALSE, "Error", o, o + 1)

\* lexer.next(): skip whitespace, then None at the end of the source or the
\* next token or error; `some` tells which.
LexNext(src, pos) ==
    LET o == RunEnd(src, pos, Whitespace)
    IN  IF o >= Len(src) THEN [some |-> FALSE, lexeme |-> Lexeme(FALSE, "None", o, o)]
        ELSE [some |-> TRUE, lexeme |-> LexAt(src, o)]

(***************************************************************************)
(* lexer/scanner.rs: tokenize().                                           *)
(***************************************************************************)
Location(line, column, start, end) ==
    [line |-> line, column |-> column, start |-> start, end |-> end]

Token(kind, value, location) == [kind |-> kind, value |-> value, location |-> location]

LexerError(message, location) == [message |-> message, location |-> location]

UnexpectedCharacterText == "Unexpected character: '{}'"
UnterminatedTextText == "Unterminated text content: missing '}}'"

\* The locals of tokenize() before its loop; pos is the lexer's position.
NewScan ==
    [pos |-> 0, tokens |-> <<>>, errors |-> <<>>, line |-> 1, line_start |-> 0,
     in_text_content |-> FALSE, text_start |-> 0, text_content |-> <<>>,
     panicked |-> FALSE]

\* Whether the usize subtraction a - b panics: it overflows when a < b, which
\* panics in a build with overflow checks (debug) and wraps in one without
\* (release).  A wrapped value v is written as the integer v - 2^64.
usize_sub_panics(a, b) == overflow_checks /\ a < b

\* The manual capture on TextOpen: content_end after the while loop.
RECURSIVE content_end(_, _)
content_end(src, e) ==
    IF e < Len(src) - 1
    THEN IF Slice(src, e, e + 2) = <<"}", "}">> THEN e ELSE content_end(src, e + 1)
    ELSE e

\* The number of newlines in a slice, and slice.rfind('\n') (-1 for None).
CountNewlines(slice) == Cardinality({k \in 1..Len(slice) : slice[k] = "\n"})
rfind_newline(slice) ==
    LET ks == {k \in 1..Len(slice) : slice[k] = "\n"}
    IN  IF ks = {} THEN -1 ELSE (CHOOSE k \in ks : \A j \in ks : j <= k) - 1

\* A faulty Err(()) branch that reports the character also in text-content
\* mode.
scan_text_error_reported(s, slice, span_end) ==
    [s EXCEPT !.text_content = @ \o slice,
              !.errors = Append(@, LexerError(Msg(UnexpectedCharacterText, slice),
                                              Location(s.line,
                                                       span_end - Len(slice) - s.line_start + 1,
                                                       span_end - Len(slice), span_end)))]

\* Err(()) in text-content mode.
scan_text_error(s, slice, span_end) ==
    LET s1 == [s EXCEPT !.text_content = @ \o slice]
    IN  IF slice = <<"\n">>
        THEN [s1 EXCEPT !.line = @ + 1, !.line_start = span_end]
        ELSE s1

\* Ok(kind) in text-content mode.
scan_in_text(s, kind, location) ==
    IF kind = "TextClose" /\ s.text_content # <<>>
       /\ usize_sub_panics(s.text_start, s.line_start)
    THEN [s EXCEPT !.panicked = TRUE]
    ELSE IF kind = "TextClose"
    THEN LET content ==
                 Token("TextContent", s.text_content,
                       Location(s.line, s.text_start - s.line_start + 1,
                                s.text_start, location.start))
             toks == IF s.text_content # <<>> THEN Append(s.tokens, content)
                     ELSE s.tokens
         IN  [s EXCEPT !.tokens = Append(toks, Token("TextClose", <<"}", "}">>, location)),
                       !.text_content = <<>>,
                       !.in_text_content = FALSE]
    ELSE IF kind = "Newline"
         THEN [s EXCEPT !.line = @ + 1, !.line_start = location.end]
         ELSE s

\* Ok(kind) in normal mode.
scan_normal(src, s, kind, slice, location) ==
    IF kind = "TextOpen"
    THEN LET text_start == location.end
             e == content_end(src, text_start)
         IN  [s EXCEPT !.tokens = Append(@, Token("TextOpen", <<"{", "{">>, location)),
                       !.in_text_content = TRUE,
                       !.text_start = text_start,
                       !.text_content = IF e < Len(src) - 1
                                        THEN Slice(src, text_start, e) ELSE @]
    ELSE IF kind = "Newline"
         THEN [s EXCEPT !.line = @ + 1, !.line_start = location.end]
    ELSE IF kind = "LineComment" THEN s
    ELSE IF kind = "BlockComment"
         THEN [s EXCEPT !.line = @ + CountNewlines(slice),
                        !.line_start = IF rfind_newline(slice) # -1
                                       THEN location.start + rfind_newline(slice) + 1
                                       ELSE @]
    ELSE IF kind = "String"
         THEN [s EXCEPT !.tokens = Append(@, Token(kind, SubSeq(slice, 2, Len(slice) - 1),
                                                   location))]
    ELSE [s EXCEPT !.tokens = Append(@, Token(kind, slice, location))]

\* One iteration of the loop, on the item lx that lexer.next() returned.
scan_step(src, s, lx) ==
    LET slice == Slice(src, lx.start, lx.end)
        column == lx.start - s.line_start + 1
        location == Location(s.line, column, lx.start, lx.end)
        s1 == [s EXCEPT !.pos = lx.end]
    IN  IF lx.ok
        THEN IF s.in_text_content THEN scan_in_text(s1, lx.kind, location)
             ELSE scan_normal(src, s1, lx.kind, slice, location)
        ELSE IF s.in_text_content THEN scan_text_error(s1, slice, lx.end)
             ELSE [s1 EXCEPT !.errors =
                       Append(@, LexerError(Msg(UnexpectedCharacterText, slice), location))]

\* A faulty end of tokenize that fails fast: Err holds the first error only.
scan_finish_first_error(src, s) ==
    LET errors == IF s.in_text_content
                  THEN Append(s.errors,
                              LexerError(Msg(UnterminatedTextText, <<>>),
                                         Location(s.line, s.text_start - s.line_start + 1,
                                                  s.text_start, Len(src))))
                  ELSE s.errors
        tokens == Append(s.tokens,
                         Token("Eof", <<>>,
                               Location(s.line, Len(src) - s.line_start + 1,
                                        Len(src), Len(src))))
    IN  IF errors = <<>>
        THEN [ok |-> TRUE, tokens |-> tokens, errors |-> <<>>, panicked |-> FALSE]
        ELSE [ok |-> FALSE, tokens |-> <<>>, errors |-> <<errors[1]>>, panicked |-> FALSE]

\* A faulty end of tokenize that puts the Eof token where the lexer stopped
\* (the end of the last item) instead of at the end of the source.
scan_finish_eof_at_position(src, s) ==
    LET errors == IF s.in_text_content
                  THEN Append(s.errors,
                              LexerError(Msg(UnterminatedTextText, <<>>),
                                         Location(s.line, s.text_start - s.line_start + 1,
                                                  s.text_start, Len(src))))
                  ELSE s.errors
        tokens == Append(s.tokens,
                         Token("Eof", <<>>,
                               Location(s.line, s.pos - s.line_start + 1, s.pos, s.pos)))
    IN  IF errors = <<>>
        THEN [ok |-> TRUE, tokens |-> tokens, errors |-> <<>>, panicked |-> FALSE]
        ELSE [ok |-> FALSE, tokens |-> <<>>, errors |-> errors, panicked |-> FALSE]

\* After the loop: the unterminated-text check, the Eof token, the result.
\* A panic unwinds out of tokenize(): nothing is returned.
scan_finish(src, s) ==
    IF s.panicked \/ (s.in_text_content /\ usize_sub_panics(s.text_start, s.line_start))
    THEN [ok |-> FALSE, tokens |-> <<>>, errors |-> <<>>, panicked |-> TRUE]
    ELSE
    LET errors == IF s.in_text_content
                  THEN Append(s.errors,
                              LexerError(Msg(UnterminatedTextText, <<>>),
                                         Location(s.line, s.text_start - s.line_start + 1,
                                                  s.text_start, Len(src))))
                  ELSE s.errors
        tokens == Append(s.tokens,
                         Token("Eof", <<>>,
                               Location(s.line, Len(src) - s.line_start + 1,
                                        Len(src), Len(src))))
    IN  IF errors = <<>>
        THEN [ok |-> TRUE, tokens |-> tokens, errors |-> <<>>, panicked |-> FALSE]
        ELSE [ok |-> FALSE, tokens |-> <<>>, errors |-> errors, panicked |-> FALSE]

RECURSIVE scan_loop(_, _)
scan_loop(src, s) ==
    LET n == LexNext(src, s.pos)
    IN  IF n.some /\ ~ s.panicked THEN scan_loop(src, scan_step(src, s, n.lexeme)) ELSE s

tokenize(src) == scan_finish(src, scan_loop(src, NewScan))

(***************************************************************************)
(* The sources given to the scanner: up to MaxChunks pieces of text.       *)
(***************************************************************************)
LexChunks ==
    { <<"{", "{">>, <<"}", "}">>, <<"}">>, <<"$">>, <<"a">>, <<" ">>, <<"\n">>,
      <<"\"">>, TimesSign, <<"/", "*">>, <<"*", "/">> }

RECURSIVE Flatten(_)
Flatten(ss) == IF ss = <<>> THEN <<>> ELSE Head(ss) \o Flatten(Tail(ss))

LexSources == {Flatten(cs) : cs \in SeqsUpTo(LexChunks, MaxChunks)}

\* Longer sources with newlines in and around text blocks and comments.
MoreLexSources ==
    {
      \* a text block that holds a block comment with a newline, and a token
      <<"{", "{", "/", "*", "\n", "*", "/", "}", "}", "a">>,
      \* a text block after a text block, the second with a newline
      <<"{", "{", "a", "}", "}", "{", "{", "\n", "}", "}">>,
      \* a block comment and a text block with newlines, and a token on a new line
      <<"/", "*", "\n", "*", "/", "{", "{", "a", "\n", "}", "}", "\n", "a">>
    }

(***************************************************************************)
(* The scanner as a state machine: one step per iteration of the loop.     *)
(***************************************************************************)
LexInit ==
    /\ \/ source \in LexSources
       \/ source \in MoreLexSources
    /\ overflow_checks \in BOOLEAN
    /\ scan = NewScan
    /\ lexed = <<>>
    /\ program = <<>>
    /\ ana = <<>>
    /\ apc = "idle"
    /\ runs = <<>>
    /\ comp = <<>>
    /\ parser_tokens = <<>>
    /\ parser = <<>>
    /\ parsed = <<>>

\* while let Some(result) = lexer.next() { ... }
ScanToken ==
    /\ lexed = <<>>
    /\ ~ scan.panicked
    /\ LexNext(source, scan.pos).some
    /\ scan' = scan_step(source, scan, LexNext(source, scan.pos).lexeme)
    /\ UNCHANGED <<overflow_checks, source, lexed, anaVars, comp, parVars>>

\* lexer.next() is None: the rest of tokenize().
ScanEnd ==
    /\ lexed = <<>>
    /\ scan.panicked \/ ~ LexNext(source, scan.pos).some
    /\ lexed' = scan_finish(source, scan)
    /\ UNCHANGED <<overflow_checks, source, scan, anaVars, comp, parVars>>

LexNext_ == ScanToken \/ ScanEnd

SpecLex == LexInit /\ [][LexNext_]_vars

(***************************************************************************)
(* Claims about the scanner.                                               *)
(***************************************************************************)
\* The offset of the first "}}" at or after offset o (-1 when there is none).
FirstCloseAfter(src, o) ==
    LET es == {e \in o..(Len(src) - 2) : src[e + 1] = "}" /\ src[e + 2] = "}"}
    IN  IF es = {} THEN -1 ELSE CHOOSE e \in es : \A d \in es : e <= d

\* The indices of the TextContent tokens of the returned token sequence.
TextContentIdx ==
    IF lexed # <<>> /\ lexed.ok
    THEN {i \in 1..Len(lexed.tokens) : lexed.tokens[i].kind = "TextContent"}
    ELSE {}

\* C4: the TextContent token of a terminated text block has as value exactly
\* the source text strictly between the "{{" and the first "}}" after it, and
\* that value is the slice of the source at the token's (start, end) span.
C4_TextContentIsVerbatim ==
    \A i \in TextContentIdx :
        LET t == lexed.tokens[i]
            open == lexed.tokens[i - 1]
        IN  /\ open.kind = "TextOpen"
            /\ t.value = Slice(source, open.location.end,
                               FirstCloseAfter(source, open.location.end))
            /\ t.value = Slice(source, t.location.start, t.location.end)

\* tokenize() has returned (it did not panic).
LexReturned == lexed # <<>> /\ ~ lexed.panicked

\* The item lexer.next() yields at the scanner's position.
NextLexeme == LexNext(source, scan.pos).lexeme

\* An iteration of the loop of tokenize(), and the step that ends it.
IsScanStep == lexed = <<>> /\ lexed' = <<>> /\ scan' # scan
IsScanEnd == lexed = <<>> /\ lexed' # <<>> /\ ~ lexed'.panicked

\* The errors tokenize() has collected when its loop is over: those of the
\* loop, and the unterminated-text error when the text block is still open.
IsPrefix(p, q) == Len(p) <= Len(q) /\ SubSeq(q, 1, Len(p)) = p

C11_Step ==
    /\ IsScanStep /\ ~ scan.in_text_content /\ ~ NextLexeme.ok =>
           /\ Len(scan'.errors) = Len(scan.errors) + 1
           /\ IsPrefix(scan.errors, scan'.errors)
           /\ LET e == scan'.errors[Len(scan'.errors)]
              IN  /\ e.message = Msg(UnexpectedCharacterText,
                                     Slice(source, NextLexeme.start, NextLexeme.end))
                  /\ e.location.start = NextLexeme.start
                  /\ e.location.end = NextLexeme.end
           /\ scan'.tokens = scan.tokens
           /\ scan'.pos = NextLexeme.end
           /\ ~ scan'.panicked
    /\ IsScanStep /\ ~ (~ scan.in_text_content /\ ~ NextLexeme.ok) =>
           scan'.errors = scan.errors
    /\ IsScanEnd =>
           /\ lexed'.ok <=> (scan.errors = <<>> /\ ~ scan.in_text_content)
           /\ ~ lexed'.ok =>
                  /\ IsPrefix(scan.errors, lexed'.errors)
                  /\ Len(lexed'.errors)
                        = Len(scan.errors) + (IF scan.in_text_content THEN 1 ELSE 0)

UnterminatedOpens ==
    {i \in 1..Len(scan.tokens) :
        /\ scan.tokens[i].kind = "TextOpen"
        /\ FirstCloseAfter(source, scan.tokens[i].location.end) = -1}

\* The indices of the 'Unterminated text content' errors of a returned Err.
UnterminatedErrors ==
    {k \in 1..Len(lexed.errors) : lexed.errors[k].message.text = UnterminatedTextText}

\* C14: when a "{{" met in normal mode has no "}}" after it, tokenize returns
\* Err with exactly one 'Unterminated text content' error, which spans from
\* the end of the "{{" to the end of the source, and every other error of
\* the list was raised before the "{{".
C14_UnterminatedTextIsOneError ==
    lexed # <<>> =>
        \A i \in UnterminatedOpens :
            /\ ~ lexed.panicked
            /\ ~ lexed.ok
            /\ Cardinality(UnterminatedErrors) = 1
            /\ \A k \in 1..Len(lexed.errors) :
                  IF k \in UnterminatedErrors
                  THEN /\ lexed.errors[k].location.start = scan.tokens[i].location.end
                       /\ lexed.errors[k].location.end = Len(source)
                  ELSE lexed.errors[k].location.end <= scan.tokens[i].location.start

\* The same statement for the builds in which integer overflow wraps.
C14_HoldsWhenOverflowWraps == overflow_checks \/ C14_UnterminatedTextIsOneError

\* The TextOpen tokens pushed in normal mode whose "{{" has a "}}" after it.
TerminatedOpens ==
    {i \in 1..Len(scan.tokens) :
        /\ scan.tokens[i].kind = "TextOpen"
        /\ FirstCloseAfter(source, scan.tokens[i].location.end) # -1}

\* C15: text-content mode ends at the first "}}" after the "{{": tokenize
\* pushes the TextClose token of that "}}", the token pushed next starts at
\* or after its end, and no 'Unterminated text content' error is reported
\* for the "{{".
C15_TextEndsAtFirstClose ==
    LexReturned =>
        \A i \in TerminatedOpens :
            LET open == scan.tokens[i]
                close == FirstCloseAfter(source, open.location.end)
            IN  /\ \E j \in (i + 1)..Len(scan.tokens) :
                      /\ scan.tokens[j].kind = "TextClose"
                      /\ scan.tokens[j].location.start = close
                      /\ \A k \in (i + 1)..(j - 1) : scan.tokens[k].kind = "TextContent"
                /\ \A k \in 1..Len(lexed.errors) :
                      lexed.errors[k].message.text = UnterminatedTextText
                          => lexed.errors[k].location.start # open.location.end

\* The same statement for the sources without a quote and without "/*".
C15_HoldsWithoutQuoteOrComment ==
    (\E k \in 1..Len(source) : source[k] = "\"" \/ LooksAt(source, k - 1, <<"/", "*">>))
    \/ C15_TextEndsAtFirstClose

\* C17: a token sequence returned by tokenize ends with an Eof token, which
\* is its only Eof token, has an empty value and the zero-width span at the
\* length of the source.
C17_EofIsLastAndOnly ==
    (lexed # <<>> /\ lexed.ok) =>
        LET n == Len(lexed.tokens)
        IN  /\ n >= 1
            /\ lexed.tokens[n].kind = "Eof"
            /\ lexed.tokens[n].value = <<>>
            /\ lexed.tokens[n].location.start = Len(source)
            /\ lexed.tokens[n].location.end = Len(source)
            /\ \A i \in 1..(n - 1) : lexed.tokens[i].kind # "Eof"

\* A returned token sequence with tokens before the Eof token, for a source
\* that ends with white space after its last token.
C17_Witness ==
    /\ lexed # <<>> /\ lexed.ok
    /\ Len(lexed.tokens) >= 3
    /\ lexed.tokens[Len(lexed.tokens) - 1].location.end < Len(source)

\* The kind of the token pushed after the i-th one ("" when it is the last).
KindAfter(i) == IF i < Len(scan.tokens) THEN scan.tokens[i + 1].kind ELSE ""

\* C20: for a "{{" with a "}}" after it, tokenize pushes a TextContent token
\* exactly when the text between the two is not empty, directly followed by
\* the TextClose token; a TextContent token is pushed only right after a
\* TextOpen token (at most one per block) and never has an empty value.
C20_TextContentIffNonEmpty ==
    lexed # <<>> =>
        /\ \A i \in TerminatedOpens :
              LET open == scan.tokens[i]
                  close == FirstCloseAfter(source, open.location.end)
              IN  IF Slice(source, open.location.end, close) # <<>>
                  THEN KindAfter(i) = "TextContent" /\ KindAfter(i + 1) = "TextClose"
                  ELSE KindAfter(i) = "TextClose"
        /\ \A i \in 1..Len(scan.tokens) :
              scan.tokens[i].kind = "TextContent" =>
                  /\ scan.tokens[i].value # <<>>
                  /\ i > 1 /\ scan.tokens[i - 1].kind = "TextOpen"

\* The same statement for the builds in which integer overflow wraps and the
\* sources without a quote and without "/*".
C20_HoldsWithoutPanicOrQuote ==
    \/ overflow_checks
    \/ \E k \in 1..Len(source) : source[k] = "\"" \/ LooksAt(source, k - 1, <<"/", "*">>)
    \/ C20_TextContentIffNonEmpty

\* The indices of the TextOpen tokens.
Opens == {i \in 1..Len(scan.tokens) : scan.tokens[i].kind = "TextOpen"}

\* The index of the TextClose token that ends the block of the i-th token
\* (a TextOpen), 0 when the block is still open at the end of the source.
CloseOf(i) ==
    LET js == {j \in (i + 1)..Len(scan.tokens) : scan.tokens[j].kind = "TextClose"}
    IN  IF js = {} THEN 0 ELSE CHOOSE j \in js : \A h \in js : j <= h

\* C25: what stands between a "{{" and the "}}" that ends text-content mode
\* yields no lexical error and no token of normal mode: a TextOpen token is
\* followed by at most one TextContent token and then by the TextClose
\* token, the span of the TextContent token ends where the span of the
\* TextClose token starts, and no error lies inside the block.
C25_OnlyContentInTextBlock ==
    LexReturned =>
        \A i \in Opens :
            /\ lexed.ok => CloseOf(i) \in {i + 1, i + 2}
            /\ CloseOf(i) # 0 =>
                   /\ CloseOf(i) = i + 2 =>
                          /\ scan.tokens[i + 1].kind = "TextContent"
                          /\ scan.tokens[i + 1].location.start = scan.tokens[i].location.end
                          /\ scan.tokens[i + 1].location.end
                                 = scan.tokens[i + 2].location.start
                   /\ CloseOf(i) \in {i + 1, i + 2}
                   /\ \A k \in 1..Len(lexed.errors) :
                          \/ lexed.errors[k].location.end <= scan.tokens[i].location.start
                          \/ lexed.errors[k].location.start
                                 >= scan.tokens[CloseOf(i)].location.end

\* tokenize has returned Ok for a source with a text block that holds a
\* character no token starts with.
C25_Witness ==
    /\ LexReturned /\ lexed.ok
    /\ \E i \in Opens :
          /\ CloseOf(i) = i + 2
          /\ \E k \in 1..Len(scan.tokens[i + 1].value) : scan.tokens[i + 1].value[k] = "$"

\* The line of offset o, and the offset at which that line starts.
LineOf(o) == 1 + CountNewlines(Slice(source, 0, o))
LineStartOf(o) ==
    LET ks == {k \in 1..o : source[k] = "\n"}
    IN  IF ks = {} THEN 0 ELSE CHOOSE k \in ks : \A j \in ks : j <= k

WellLocated(t) ==
    /\ t.location.line = LineOf(t.location.start)
    /\ t.location.column = t.location.start - LineStartOf(t.location.start) + 1

\* The i-th token comes after a text block, or after a block comment that
\* stands outside the tokens and the text blocks.
AfterTextBlock(i) == \E j \in Opens : CloseOf(j) # 0 /\ CloseOf(j) < i
AfterBlockComment(i) ==
    \E o \in 0..(scan.tokens[i].location.start - 4) :
        /\ LooksAt(source, o, <<"/", "*">>)
        /\ LexAt(source, o).kind = "BlockComment"
        /\ LexAt(source, o).end <= scan.tokens[i].location.start
        /\ \A k \in 1..Len(scan.tokens) :
               o < scan.tokens[k].location.start \/ o >= scan.tokens[k].location.end
        /\ \A j \in Opens :
               \/ o < scan.tokens[j].location.start
               \/ CloseOf(j) # 0 /\ o >= scan.tokens[CloseOf(j)].location.end

\* C26: newlines in text blocks and in block comments advance the line
\* counter: every token pushed after a text block or a block comment has as
\* line 1 plus the number of newlines of the source before its start, and as
\* column its start minus the offset just after the last such newline, plus 1.
C26_LinesAfterBlocks ==
    LexReturned =>
        \A i \in 1..Len(scan.tokens) :
            (AfterTextBlock(i) \/ AfterBlockComment(i)) => WellLocated(scan.tokens[i])

\* A text block of the source holds a newline.
NewlineInTextBlock ==
    \E i \in Opens :
        \E k \in (scan.tokens[i].location.end + 1) ..
                    (IF CloseOf(i) = 0 THEN Len(source)
                     ELSE scan.tokens[CloseOf(i)].location.start) : source[k] = "\n"

\* The same statement for the sources without a newline in a text block.
C26_HoldsWithoutNewlineInText == NewlineInTextBlock \/ C26_LinesAfterBlocks

\* A token on the second line, after a block comment with a newline, is
\* located on line 2.
C26_LineCountedInComment ==
    /\ LexReturned
    /\ Opens = {}
    /\ \E i \in 1..Len(scan.tokens) :
          AfterBlockComment(i) /\ scan.tokens[i].location.line = 2
              /\ WellLocated(scan.tokens[i])

\* The tokens and the errors tokenize() has produced when it ends.
Produced ==
    IF lexed.panicked THEN <<>>
    ELSE IF lexed.ok THEN lexed.tokens
    ELSE scan.tokens \o lexed.errors

IsTextSpan(x) ==
    IF "kind" \in DOMAIN x THEN x.kind = "TextContent"
    ELSE x.message.text = UnterminatedTextText

\* C27: the line-start offset used for the column of a token or error is
\* never greater than its start offset: no subtraction underflows (tokenize
\* does not panic where overflow is checked, no column wraps where it is
\* not), every column is >= 1, and the TextContent token and the
\* 'Unterminated text content' error of a text block, also of one that
\* holds a newline, carry the line on which their span starts.
C27_ColumnsNeverUnderflow ==
    lexed # <<>> =>
        /\ ~ lexed.panicked
        /\ \A k \in 1..Len(Produced) :
              /\ Produced[k].location.column >= 1
              /\ IsTextSpan(Produced[k])
                     => Produced[k].location.line = LineOf(Produced[k].location.start)

\* The same statement for the sources without a newline in a text block and
\* without a string (whose newlines the scanner does not count).
C27_HoldsWithoutNewlineInText ==
    \/ NewlineInTextBlock
    \/ \E k \in 1..Len(source) : source[k] = "\""
    \/ C27_ColumnsNeverUnderflow

\* tokenize() has panicked on the subtraction of the column of a text span.
C27_Panics ==
    /\ lexed # <<>> /\ lexed.panicked
    /\ scan.line_start > scan.text_start

(***************************************************************************)
(* parser/grammar.rs: the recursive-descent parser.  A production takes    *)
(* the token slice ts and self.current (0-based) and returns the Result    *)
(* together with self.current after it: [ok, val, cur] or [ok, err, cur].  *)
(***************************************************************************)
ParseError(message, location) == [message |-> message, location |-> location]

POk(val, cur) == [ok |-> TRUE, val |-> val, cur |-> cur]
PErr(err, cur) == [ok |-> FALSE, err |-> err, cur |-> cur]

peek(ts, cur) == ts[cur + 1]
previous(ts, cur) == ts[cur]
is_at_end(ts, cur) == peek(ts, cur).kind = "Eof"
check(ts, cur, kind) == IF is_at_end(ts, cur) THEN FALSE ELSE peek(ts, cur).kind = kind
current_location(ts, cur) == peek(ts, cur).location

\* advance(): self.current after it; the token it returns is previous().
advance(ts, cur) == IF ~ is_at_end(ts, cur) THEN cur + 1 ELSE cur

location_from(ts, cur, start) ==
    Location(start.line, start.column, start.start, previous(ts, cur).location.end)

\* format!("{} (got {})", message, token.kind.name())
parser_error(ts, cur, message) ==
    ParseError([text |-> "{} (got {})", arg |-> <<message, peek(ts, cur).kind>>],
               peek(ts, cur).location)

\* consume(): Ok(the token) with self.current advanced, or Err.
consume(ts, cur, kind, message) ==
    IF check(ts, cur, kind) THEN POk(peek(ts, cur), advance(ts, cur))
    ELSE PErr(parser_error(ts, cur, message), cur)

\* token.value.parse::<f64>().unwrap_or(0.0) on the text of a Number token:
\* the integer digits without leading zeros, the fraction digits without
\* trailing zeros.
RECURSIVE StripLeadingZeros(_)
StripLeadingZeros(ds) ==
    IF Len(ds) > 1 /\ Head(ds) = "0" THEN StripLeadingZeros(Tail(ds)) ELSE ds
RECURSIVE StripTrailingZeros(_)
StripTrailingZeros(ds) ==
    IF ds # <<>> /\ ds[Len(ds)] = "0" THEN StripTrailingZeros(SubSeq(ds, 1, Len(ds) - 1))
    ELSE ds
parse_f64(text) ==
    LET dots == {k \in 1..Len(text) : text[k] = "."}
        dot == IF dots = {} THEN Len(text) + 1 ELSE CHOOSE k \in dots : TRUE
    IN  IF text = <<>> \/ Cardinality(dots) > 1 \/ \E k \in 1..Len(text) : text[k] \notin Digit \cup {"."}
        THEN [int |-> <<"0">>, frac |-> <<>>]
        ELSE [int |-> StripLeadingZeros(SubSeq(text, 1, dot - 1)),
              frac |-> StripTrailingZeros(SubSeq(text, dot + 1, Len(text)))]

StringLiteral(value, loc) == [type |-> "String", value |-> value, loc |-> loc]
NumberLiteral(value, loc) == [type |-> "Number", value |-> value, loc |-> loc]
BooleanLiteral(value, loc) == [type |-> "Boolean", value |-> value, loc |-> loc]
ContextPathExpr(path, loc) == [type |-> "ContextPath", path |-> path, loc |-> loc]
IdentifierExpr(name, loc) == [type |-> "Identifier", name |-> name, loc |-> loc]
MemberAccessExpr(object, property, loc) ==
    [type |-> "MemberAccess", object |-> object, property |-> property, loc |-> loc]
BinaryExpr(operator, left, right, loc) ==
    [type |-> "Binary", operator |-> operator, left |-> left, right |-> right, loc |-> loc]
TernaryExpr(condition, consequent, alternate, loc) ==
    [type |-> "Ternary", condition |-> condition, consequent |-> consequent,
     alternate |-> alternate, loc |-> loc]
CallExpr(callee, arguments, loc) ==
    [type |-> "Call", callee |-> callee, arguments |-> arguments, loc |-> loc]

\* The `?` operator: the rest K of a production runs on an Ok result, an
\* Err result is returned as it is.
Then(r, K(_)) == IF r.ok THEN K(r) ELSE r

\* An Ok result with the value mapped, as Result::map does.
MapOk(r, F(_)) == IF r.ok THEN POk(F(r.val), r.cur) ELSE r

RECURSIVE expression(_, _), ternary(_, _), or(_, _), and(_, _), equality(_, _),
          comparison(_, _), additive(_, _), postfix(_, _), primary(_, _),
          or_rest(_, _, _, _, _), and_rest(_, _, _, _, _), equality_rest(_, _, _, _, _),
          comparison_rest(_, _, _, _, _), additive_rest(_, _, _, _, _),
          postfix_loop(_, _, _, _), call_arguments(_, _, _)

expression(ts, cur) == ternary(ts, cur)

ternary(ts, cur) ==
    Then(or(ts, cur), LAMBDA c :
        IF ~ check(ts, c.cur, "Question") THEN c
        ELSE Then(expression(ts, advance(ts, c.cur)), LAMBDA t :
             Then(consume(ts, t.cur, "Colon", "Expected ':' in ternary"), LAMBDA colon :
             Then(expression(ts, colon.cur), LAMBDA e :
                 POk(TernaryExpr(c.val, t.val, e.val,
                                 location_from(ts, e.cur, current_location(ts, cur))),
                     e.cur)))))

\* A binary expression folded to the left; the first operand as it is.
Fold(ts, start, operator, left, r) ==
    IF operator = "" THEN r.val
    ELSE BinaryExpr(operator, left, r.val, location_from(ts, r.cur, start))

\* The five binary levels.  Each parses an operand of the next level and,
\* while a token of the level follows, a further operand, folding to the
\* left; X_rest parses the operand at cur and folds it into `left` with
\* `operator` ("" for the first operand).
OrOps == ("Or" :> "Or")

or_rest(ts, cur, start, operator, left) ==
    Then(and(ts, cur), LAMBDA r :
        IF peek(ts, r.cur).kind \in DOMAIN OrOps
        THEN or_rest(ts, advance(ts, r.cur), start, OrOps[peek(ts, r.cur).kind],
                       Fold(ts, start, operator, left, r))
        ELSE POk(Fold(ts, start, operator, left, r), r.cur))

or(ts, cur) == or_rest(ts, cur, current_location(ts, cur), "", <<>>)

AndOps == ("And" :> "And")

and_rest(ts, cur, start, operator, left) ==
    Then(equality(ts, cur), LAMBDA r :
        IF peek(ts, r.cur).kind \in DOMAIN AndOps
        THEN and_rest(ts, advance(ts, r.cur), start, AndOps[peek(ts, r.cur).kind],
                       Fold(ts, start, operator, left, r))
        ELSE POk(Fold(ts, start, operator, left, r), r.cur))

and(ts, cur) == and_rest(ts, cur, current_location(ts, cur), "", <<>>)

EqualityOps == ("Eq" :> "Eq") @@ ("Ne" :> "Ne")

equality_rest(ts, cur, start, operator, left) ==
    Then(comparison(ts, cur), LAMBDA r :
        IF peek(ts, r.cur).kind \in DOMAIN EqualityOps
        THEN equality_rest(ts, advance(ts, r.cur), start, EqualityOps[peek(ts, r.cur).kind],
                       Fold(ts, start, operator, left, r))
        ELSE POk(Fold(ts, start, operator, left, r), r.cur))

equality(ts, cur) == equality_rest(ts, cur, current_location(ts, cur), "", <<>>)

ComparisonOps == ("Gt" :> "Gt") @@ ("Ge" :> "Ge") @@ ("Lt" :> "Lt") @@ ("Le" :> "Le")

comparison_rest(ts, cur, start, operator, left) ==
    Then(additive(ts, cur), LAMBDA r :
        IF peek(ts, r.cur).kind \in DOMAIN ComparisonOps
        THEN comparison_rest(ts, advance(ts, r.cur), start, ComparisonOps[peek(ts, r.cur).kind],
                       Fold(ts, start, operator, left, r))
        ELSE POk(Fold(ts, start, operator, left, r), r.cur))

comparison(ts, cur) == comparison_rest(ts, cur, current_location(ts, cur), "", <<>>)

AdditiveOps == ("Plus" :> "Add") @@ ("Minus" :> "Sub")

\* A faulty additive level that takes the comparison operators as well, so
\* that `<` binds as tightly as `+`.
RECURSIVE additive_rest_with_comparison(_, _, _, _, _)
additive_rest_with_comparison(ts, cur, start, operator, left) ==
    Then(postfix(ts, cur), LAMBDA r :
        IF peek(ts, r.cur).kind \in DOMAIN AdditiveOps
        THEN additive_rest_with_comparison(ts, advance(ts, r.cur), start,
                                           AdditiveOps[peek(ts, r.cur).kind],
                                           Fold(ts, start, operator, left, r))
        ELSE IF peek(ts, r.cur).kind \in DOMAIN ComparisonOps
        THEN additive_rest_with_comparison(ts, advance(ts, r.cur), start,
                                           ComparisonOps[peek(ts, r.cur).kind],
                                           Fold(ts, start, operator, left, r))
        ELSE POk(Fold(ts, start, operator, left, r), r.cur))

additive_rest(ts, cur, start, operator, left) ==
    Then(postfix(ts, cur), LAMBDA r :
        IF peek(ts, r.cur).kind \in DOMAIN AdditiveOps
        THEN additive_rest(ts, advance(ts, r.cur), start, AdditiveOps[peek(ts, r.cur).kind],
                       Fold(ts, start, operator, left, r))
        ELSE POk(Fold(ts, start, operator, left, r), r.cur))

additive(ts, cur) == additive_rest(ts, cur, current_location(ts, cur), "", <<>>)

\* The argument loop of a call: expression (',' expression)*.
call_arguments(ts, cur, arguments) ==
    Then(expression(ts, cur), LAMBDA a :
        IF check(ts, a.cur, "Comma")
        THEN call_arguments(ts, advance(ts, a.cur), Append(arguments, a.val))
        ELSE POk(Append(arguments, a.val), a.cur))

\* A faulty postfix loop that calls whatever expression was parsed so far.
postfix_loop_any_callee(ts, cur, start, expr) ==
    IF check(ts, cur, "Dot")
    THEN Then(consume(ts, advance(ts, cur), "Identifier", "Expected property name after '.'"),
              LAMBDA property :
                  postfix_loop(ts, property.cur, start,
                               MemberAccessExpr(expr, property.val.value,
                                                location_from(ts, property.cur, start))))
    ELSE IF check(ts, cur, "LParen")
    THEN Then(IF ~ check(ts, advance(ts, cur), "RParen")
              THEN call_arguments(ts, advance(ts, cur), <<>>)
              ELSE POk(<<>>, advance(ts, cur)), LAMBDA args :
         Then(consume(ts, args.cur, "RParen", "Expected ')'"), LAMBDA close :
             postfix_loop(ts, close.cur, start,
                          CallExpr(IF expr.type = "Identifier" THEN expr.name
                                   ELSE IF expr.type = "MemberAccess" THEN expr.property
                                   ELSE IF expr.type = "Call" THEN expr.callee
                                   ELSE <<>>,
                                   args.val, location_from(ts, close.cur, start)))))
    ELSE POk(expr, cur)

postfix_loop(ts, cur, start, expr) ==
    IF check(ts, cur, "Dot")
    THEN Then(consume(ts, advance(ts, cur), "Identifier", "Expected property name after '.'"),
              LAMBDA property :
                  postfix_loop(ts, property.cur, start,
                               MemberAccessExpr(expr, property.val.value,
                                                location_from(ts, property.cur, start))))
    ELSE IF check(ts, cur, "LParen") /\ expr.type = "Identifier"
    THEN Then(IF ~ check(ts, advance(ts, cur), "RParen")
              THEN call_arguments(ts, advance(ts, cur), <<>>)
              ELSE POk(<<>>, advance(ts, cur)), LAMBDA args :
         Then(consume(ts, args.cur, "RParen", "Expected ')'"), LAMBDA close :
             postfix_loop(ts, close.cur, start,
                          CallExpr(expr.name, args.val, location_from(ts, close.cur, start)))))
    ELSE POk(expr, cur)

postfix(ts, cur) ==
    Then(primary(ts, cur), LAMBDA e :
        postfix_loop(ts, e.cur, current_location(ts, cur), e.val))

primary(ts, cur) ==
    LET start == current_location(ts, cur)
        token == peek(ts, cur)
        next == advance(ts, cur)
        loc == location_from(ts, next, start)
    IN  IF check(ts, cur, "String") THEN POk(StringLiteral(token.value, loc), next)
        ELSE IF check(ts, cur, "Number")
             THEN POk(NumberLiteral(parse_f64(token.value), loc), next)
        ELSE IF check(ts, cur, "True") THEN POk(BooleanLiteral(TRUE, loc), next)
        ELSE IF check(ts, cur, "False") THEN POk(BooleanLiteral(FALSE, loc), next)
        ELSE IF check(ts, cur, "ContextPath") THEN POk(ContextPathExpr(token.value, loc), next)
        ELSE IF check(ts, cur, "Identifier") THEN POk(IdentifierExpr(token.value, loc), next)
        ELSE IF check(ts, cur, "LParen")
             THEN Then(expression(ts, next), LAMBDA e :
                  Then(consume(ts, e.cur, "RParen", "Expected ')'"), LAMBDA close :
                      POk(e.val, close.cur)))
        ELSE PErr(parser_error(ts, cur, "Expected expression"), cur)

Parameter(name, binding, loc) == [name |-> name, binding |-> binding, loc |-> loc]
Attribute(name, value, loc) == [name |-> name, value |-> value, loc |-> loc]
ParameterBinding(name, value, loc) == [name |-> name, value |-> value, loc |-> loc]

parameter(ts, cur) ==
    Then(consume(ts, cur, "Identifier", "Expected parameter name"), LAMBDA name :
    Then(consume(ts, name.cur, "Colon", "Expected ':'"), LAMBDA colon :
    Then(consume(ts, colon.cur, "Identifier", "Expected binding name"), LAMBDA binding :
        POk(Parameter(name.val.value, binding.val.value,
                      location_from(ts, binding.cur, current_location(ts, cur))),
            binding.cur))))

attribute(ts, cur) ==
    Then(consume(ts, cur, "Identifier", "Expected attribute name"), LAMBDA name :
    Then(consume(ts, name.cur, "Colon", "Expected ':'"), LAMBDA colon :
    Then(expression(ts, colon.cur), LAMBDA value :
        POk(Attribute(name.val.value, value.val,
                      location_from(ts, value.cur, current_location(ts, cur))),
            value.cur))))

parameter_binding(ts, cur) ==
    Then(consume(ts, cur, "Identifier", "Expected parameter name"), LAMBDA name :
    Then(consume(ts, name.cur, "Colon", "Expected ':'"), LAMBDA colon :
    Then(expression(ts, colon.cur), LAMBDA value :
        POk(ParameterBinding(name.val.value, value.val,
                             location_from(ts, value.cur, current_location(ts, cur))),
            value.cur))))

\* loop { params.push(self.parameter()?); if !match_token(Comma) { break } }
RECURSIVE parameters_loop(_, _, _)
parameters_loop(ts, cur, params) ==
    Then(parameter(ts, cur), LAMBDA i :
        IF check(ts, i.cur, "Comma")
        THEN parameters_loop(ts, advance(ts, i.cur), Append(params, i.val))
        ELSE POk(Append(params, i.val), i.cur))

parameter_list(ts, cur) ==
    Then(consume(ts, cur, "LParen", "Expected '('"), LAMBDA open :
    Then(IF ~ check(ts, open.cur, "RParen") THEN parameters_loop(ts, open.cur, <<>>)
         ELSE POk(<<>>, open.cur), LAMBDA params :
    Then(consume(ts, params.cur, "RParen", "Expected ')'"), LAMBDA close :
        POk(params.val, close.cur))))

RECURSIVE attributes_loop(_, _, _)
attributes_loop(ts, cur, attrs) ==
    Then(attribute(ts, cur), LAMBDA i :
        IF check(ts, i.cur, "Comma")
        THEN attributes_loop(ts, advance(ts, i.cur), Append(attrs, i.val))
        ELSE POk(Append(attrs, i.val), i.cur))

attribute_list(ts, cur) ==
    Then(consume(ts, cur, "LBracket", "Expected '['"), LAMBDA open :
    Then(IF ~ check(ts, open.cur, "RBracket") THEN attributes_loop(ts, open.cur, <<>>)
         ELSE POk(<<>>, open.cur), LAMBDA attrs :
    Then(consume(ts, attrs.cur, "RBracket", "Expected ']'"), LAMBDA close :
        POk(attrs.val, close.cur))))

RECURSIVE bindings_loop(_, _, _)
bindings_loop(ts, cur, bindings) ==
    Then(parameter_binding(ts, cur), LAMBDA i :
        IF check(ts, i.cur, "Comma")
        THEN bindings_loop(ts, advance(ts, i.cur), Append(bindings, i.val))
        ELSE POk(Append(bindings, i.val), i.cur))

parameter_binding_list(ts, cur) ==
    Then(consume(ts, cur, "LParen", "Expected '('"), LAMBDA open :
    Then(IF ~ check(ts, open.cur, "RParen") THEN bindings_loop(ts, open.cur, <<>>)
         ELSE POk(<<>>, open.cur), LAMBDA bindings :
    Then(consume(ts, bindings.cur, "RParen", "Expected ')'"), LAMBDA close :
        POk(bindings.val, close.cur))))

\* str::trim()
TrimChars == {" ", "\t", "\n", "\r"}
RECURSIVE trim_start(_)
trim_start(text) ==
    IF text # <<>> /\ Head(text) \in TrimChars THEN trim_start(Tail(text)) ELSE text
RECURSIVE trim_end(_)
trim_end(text) ==
    IF text # <<>> /\ text[Len(text)] \in TrimChars
    THEN trim_end(SubSeq(text, 1, Len(text) - 1)) ELSE text
trim(text) == trim_end(trim_start(text))

RECURSIVE expr_to_string(_)
expr_to_string(expr) ==
    IF expr.type = "ContextPath" THEN expr.path
    ELSE IF expr.type = "Identifier" THEN expr.name
    ELSE IF expr.type = "MemberAccess"
         THEN expr_to_string(expr.object) \o <<".">> \o expr.property
    ELSE <<>>

text_node(ts, cur) ==
    Then(consume(ts, cur, "TextOpen", "Expected '{{'"), LAMBDA open :
    Then(IF check(ts, open.cur, "TextContent")
         THEN POk(peek(ts, open.cur).value, advance(ts, open.cur))
         ELSE POk(<<>>, open.cur), LAMBDA content :
    Then(consume(ts, content.cur, "TextClose", "Expected '}}'"), LAMBDA close :
        POk(TextNode(trim(content.val), FALSE,
                     location_from(ts, close.cur, current_location(ts, cur))),
            close.cur))))

dynamic_text(ts, cur) ==
    Then(consume(ts, cur, "ContextPath", "Expected context path"), LAMBDA token :
        POk(TextNode(token.val.value, TRUE,
                     location_from(ts, token.cur, current_location(ts, cur))),
            token.cur))

dynamic_expression_text(ts, cur) ==
    Then(expression(ts, cur), LAMBDA expr :
        POk(TextNode(expr_to_string(expr.val), TRUE,
                     location_from(ts, expr.cur, current_location(ts, cur))),
            expr.cur))

slot(ts, cur) ==
    Then(consume(ts, cur, "Slot", "Expected '@slot'"), LAMBDA token :
        POk(SlotNode(location_from(ts, token.cur, current_location(ts, cur))), token.cur))

RECURSIVE block(_, _), block_nodes(_, _, _), node(_, _), element(_, _),
          component_ref(_, _), if_statement(_, _), each_statement(_, _),
          alternate_of(_, _)

\* while !check(RBrace) && !is_at_end() { nodes.push(self.node()?) }
block_nodes(ts, cur, nodes) ==
    IF ~ check(ts, cur, "RBrace") /\ ~ is_at_end(ts, cur)
    THEN Then(node(ts, cur), LAMBDA n : block_nodes(ts, n.cur, Append(nodes, n.val)))
    ELSE POk(nodes, cur)

block(ts, cur) ==
    Then(consume(ts, cur, "LBrace", "Expected '{'"), LAMBDA open :
    Then(block_nodes(ts, open.cur, <<>>), LAMBDA nodes :
    Then(consume(ts, nodes.cur, "RBrace", "Expected '}'"), LAMBDA close :
        POk(nodes.val, close.cur))))

node(ts, cur) ==
    IF check(ts, cur, "If") THEN if_statement(ts, cur)
    ELSE IF check(ts, cur, "Each") THEN each_statement(ts, cur)
    ELSE IF check(ts, cur, "Slot") THEN slot(ts, cur)
    ELSE IF check(ts, cur, "TextOpen") THEN text_node(ts, cur)
    ELSE IF check(ts, cur, "ContextPath") THEN dynamic_text(ts, cur)
    ELSE IF check(ts, cur, "ComponentName") THEN component_ref(ts, cur)
    ELSE IF check(ts, cur, "Identifier")
         THEN IF cur + 1 < Len(ts) /\ ts[cur + 2].kind = "Dot"
              THEN dynamic_expression_text(ts, cur)
              ELSE element(ts, cur)
    ELSE PErr(parser_error(ts, cur, "Expected element, component, or directive"), cur)

element(ts, cur) ==
    Then(consume(ts, cur, "Identifier", "Expected tag name"), LAMBDA tag :
    Then(IF check(ts, tag.cur, "LBracket") THEN attribute_list(ts, tag.cur)
         ELSE POk(<<>>, tag.cur), LAMBDA attributes :
    Then(IF check(ts, attributes.cur, "TextOpen")
         THEN MapOk(text_node(ts, attributes.cur), LAMBDA text : <<text>>)
         ELSE IF check(ts, attributes.cur, "LBrace") THEN block(ts, attributes.cur)
         ELSE POk(<<>>, attributes.cur), LAMBDA children :
        POk(ElementNode(tag.val.value, attributes.val, children.val,
                        location_from(ts, children.cur, current_location(ts, cur))),
            children.cur))))

component_ref(ts, cur) ==
    Then(consume(ts, cur, "ComponentName", "Expected component name"), LAMBDA name :
    Then(IF check(ts, name.cur, "LParen") THEN parameter_binding_list(ts, name.cur)
         ELSE POk(<<>>, name.cur), LAMBDA parameters :
    Then(IF check(ts, parameters.cur, "LBrace") THEN block(ts, parameters.cur)
         ELSE POk(<<>>, parameters.cur), LAMBDA children :
        POk(ComponentRefNode(name.val.value, parameters.val, children.val,
                             location_from(ts, children.cur, current_location(ts, cur))),
            children.cur))))

\* The alternate of an @if whose consequent ends before cur.
alternate_of(ts, cur) ==
    IF check(ts, cur, "Else")
    THEN IF check(ts, advance(ts, cur), "If")
         THEN MapOk(if_statement(ts, advance(ts, cur)), LAMBDA stmt : AltElseIf(stmt))
         ELSE MapOk(block(ts, advance(ts, cur)), LAMBDA nodes : AltBlock(nodes))
    ELSE POk(NoAlternate, cur)

if_statement(ts, cur) ==
    Then(consume(ts, cur, "If", "Expected '@if'"), LAMBDA kw :
    Then(expression(ts, kw.cur), LAMBDA condition :
    Then(block(ts, condition.cur), LAMBDA consequent :
    Then(alternate_of(ts, consequent.cur), LAMBDA alternate :
        POk(IfNode(condition.val, consequent.val, alternate.val,
                   location_from(ts, alternate.cur, current_location(ts, cur))),
            alternate.cur)))))

each_statement(ts, cur) ==
    Then(consume(ts, cur, "Each", "Expected '@each'"), LAMBDA kw :
    Then(expression(ts, kw.cur), LAMBDA iterable :
    Then(consume(ts, iterable.cur, "As", "Expected 'as'"), LAMBDA as :
    Then(consume(ts, as.cur, "Identifier", "Expected item name"), LAMBDA item_name :
    Then(IF check(ts, item_name.cur, "Comma")
         THEN MapOk(consume(ts, advance(ts, item_name.cur), "Identifier",
                            "Expected index name"), LAMBDA name : <<name.value>>)
         ELSE POk(<<>>, item_name.cur), LAMBDA index_name :
    Then(block(ts, index_name.cur), LAMBDA body :
        POk(EachNode(iterable.val, item_name.val.value, index_name.val, body.val,
                     location_from(ts, body.cur, current_location(ts, cur))),
            body.cur)))))))

component_decl(ts, cur) ==
    Then(consume(ts, cur, "Component", "Expected 'component'"), LAMBDA kw :
    Then(consume(ts, kw.cur, "ComponentName", "Expected component name"), LAMBDA name :
    Then(IF check(ts, name.cur, "LParen") THEN parameter_list(ts, name.cur)
         ELSE POk(<<>>, name.cur), LAMBDA parameters :
    Then(IF check(ts, parameters.cur, "LBracket") THEN attribute_list(ts, parameters.cur)
         ELSE POk(<<>>, parameters.cur), LAMBDA attributes :
    Then(block(ts, attributes.cur), LAMBDA body :
        POk(ComponentDecl(name.val.value, parameters.val, attributes.val, body.val,
                          location_from(ts, body.cur, current_location(ts, cur))),
            body.cur))))))

section_decl(ts, cur) ==
    Then(consume(ts, cur, "Section", "Expected 'section'"), LAMBDA kw :
    Then(consume(ts, kw.cur, "ComponentName", "Expected section name"), LAMBDA name :
    Then(block(ts, name.cur), LAMBDA body :
        POk(SectionDecl(name.val.value, body.val,
                        location_from(ts, body.cur, current_location(ts, cur))),
            body.cur))))

page_decl(ts, cur) ==
    Then(consume(ts, cur, "Page", "Expected 'page'"), LAMBDA kw :
    Then(consume(ts, kw.cur, "Identifier", "Expected page name"), LAMBDA name :
    Then(consume(ts, name.cur, "String", "Expected route string"), LAMBDA route :
    Then(block(ts, route.cur), LAMBDA body :
        POk(PageDecl(name.val.value, route.val.value, body.val,
                     location_from(ts, body.cur, current_location(ts, cur))),
            body.cur)))))

declaration(ts, cur) ==
    IF check(ts, cur, "Component") THEN component_decl(ts, cur)
    ELSE IF check(ts, cur, "Section") THEN section_decl(ts, cur)
    ELSE IF check(ts, cur, "Page") THEN page_decl(ts, cur)
    ELSE PErr(parser_error(ts, cur, "Expected 'component', 'section', or 'page'"), cur)

\* A faulty synchronize() whose first step moves the cursor without looking
\* for the end of the tokens.
synchronize_unguarded(ts, cur) == cur + 1

\* A faulty synchronize() that discards no token.
synchronize_nothing(ts, cur) == cur

\* The loop of synchronize(), after its first advance().
RECURSIVE synchronize_loop(_, _)
synchronize_loop(ts, cur) ==
    IF is_at_end(ts, cur) THEN cur
    ELSE IF previous(ts, cur).kind = "RBrace" THEN cur
    ELSE IF peek(ts, cur).kind \in {"Component", "Section", "Page"} THEN cur
    ELSE synchronize_loop(ts, advance(ts, cur))

synchronize(ts, cur) == synchronize_loop(ts, advance(ts, cur))

\* The Parser struct [current, errors] with the body parse() has collected.
NewParser == [current |-> 0, errors |-> <<>>, body |-> <<>>]

\* The arm of the match in the loop of parse() on the result d.
parse_match(ts, ps, d) ==
    IF d.ok THEN [ps EXCEPT !.body = Append(@, d.val), !.current = d.cur]
    ELSE [ps EXCEPT !.errors = Append(@, d.err), !.current = synchronize(ts, d.cur)]

\* One iteration of the loop of parse().
parse_step(ts, ps) == parse_match(ts, ps, declaration(ts, ps.current))

RECURSIVE parse_loop(_, _)
parse_loop(ts, ps) ==
    IF ~ is_at_end(ts, ps.current) THEN parse_loop(ts, parse_step(ts, ps)) ELSE ps

\* A faulty end of parse() that returns the first recorded error only.
parse_finish_first_error(ts, ps) ==
    IF ps.errors = <<>>
    THEN [ok |-> TRUE,
          ast |-> Program(ps.body,
                          Location(current_location(ts, 0).line,
                                   current_location(ts, 0).column,
                                   current_location(ts, 0).start,
                                   current_location(ts, ps.current).end)),
          errors |-> <<>>]
    ELSE [ok |-> FALSE, ast |-> <<>>, errors |-> <<ps.errors[1]>>]

\* if self.errors.is_empty() { Ok(Program { .. }) } else { Err(self.errors) }
parse_finish(ts, ps) ==
    IF ps.errors = <<>>
    THEN [ok |-> TRUE,
          ast |-> Program(ps.body,
                          Location(current_location(ts, 0).line,
                                   current_location(ts, 0).column,
                                   current_location(ts, 0).start,
                                   current_location(ts, ps.current).end)),
          errors |-> <<>>]
    ELSE [ok |-> FALSE, ast |-> <<>>, errors |-> ps.errors]

parse(ts) == parse_finish(ts, parse_loop(ts, NewParser))

(***************************************************************************)
(* The token slices given to the parser: the tokens of up to MaxParseItems *)
(* pieces of source text, each a declaration or a malformed fragment.      *)
(***************************************************************************)
ParseSnippets ==
    {
      \* a well-formed declaration: component A { }
      <<"c", "o", "m", "p", "o", "n", "e", "n", "t", " ", "A", " ", "{", " ", "}", " ">>,
      \* a declaration keyword with nothing after it: component
      <<"c", "o", "m", "p", "o", "n", "e", "n", "t", " ">>,
      \* a page without its route: page h { }
      <<"p", "a", "g", "e", " ", "h", " ", "{", " ", "}", " ">>,
      \* a section with a member access and an element: section S { a.b c }
      <<"s", "e", "c", "t", "i", "o", "n", " ", "S", " ", "{", " ", "a", ".", "b", " ",
        "c", " ", "}", " ">>,
      \* a closing brace on its own: }
      <<"}", " ">>,
      \* an unexpected token in a nested block: component B { d { ? } }
      <<"c", "o", "m", "p", "o", "n", "e", "n", "t", " ", "B", " ", "{", " ", "d", " ",
        "{", " ", "?", " ", "}", " ", "}", " ">>,
      \* a block that the end of input cuts after an identifier: section T { e
      <<"s", "e", "c", "t", "i", "o", "n", " ", "T", " ", "{", " ", "e", " ">>
    }

ParseSources == {Flatten(cs) : cs \in SeqsUpTo(ParseSnippets, MaxParseItems)}

(***************************************************************************)
(* The parser as a state machine: one step per iteration of the loop of    *)
(* parse(), and the step that returns its result.                          *)
(***************************************************************************)
ParseInit ==
    /\ source \in ParseSources
    /\ overflow_checks \in BOOLEAN
    /\ parser_tokens = <<>>
    /\ parser = <<>>
    /\ parsed = <<>>
    /\ scan = <<>>
    /\ lexed = <<>>
    /\ program = <<>>
    /\ ana = <<>>
    /\ apc = "idle"
    /\ runs = <<>>
    /\ comp = <<>>

\* Parser::new(&tokens), on the tokens of the source.
ParserNew ==
    /\ parser = <<>>
    /\ tokenize(source).ok
    /\ parser_tokens' = tokenize(source).tokens
    /\ parser' = NewParser
    /\ UNCHANGED <<parsed, lexVars, anaVars, comp>>

\* while !self.is_at_end() { match self.declaration() { ... } }
ParseDeclaration ==
    /\ parser # <<>>
    /\ parsed = <<>>
    /\ ~ is_at_end(parser_tokens, parser.current)
    /\ parser' = parse_step(parser_tokens, parser)
    /\ UNCHANGED <<parser_tokens, parsed, lexVars, anaVars, comp>>

\* The loop is over: Ok(Program) or Err(self.errors).
ParseEnd ==
    /\ parser # <<>>
    /\ parsed = <<>>
    /\ is_at_end(parser_tokens, parser.current)
    /\ parsed' = parse_finish(parser_tokens, parser)
    /\ UNCHANGED <<parser_tokens, parser, lexVars, anaVars, comp>>

ParseNext == ParserNew \/ ParseDeclaration \/ ParseEnd

SpecParse == ParseInit /\ [][ParseNext]_vars

(***************************************************************************)
(* Claims about parse().                                                   *)
(***************************************************************************)
\* An iteration of the loop of parse(), the Result of its declaration(), and
\* the step that returns.
IsParseStep == parser # <<>> /\ parsed = <<>> /\ parsed' = <<>> /\ parser' # parser
ThisDeclaration == declaration(parser_tokens, parser.current)
IsParseEnd == parser # <<>> /\ parsed = <<>> /\ parsed' # <<>>

C12_Step ==
    /\ IsParseStep /\ ThisDeclaration.ok =>
           /\ parser'.errors = parser.errors
           /\ parser'.body = Append(parser.body, ThisDeclaration.val)
    /\ IsParseStep /\ ~ ThisDeclaration.ok =>
           /\ parser'.errors = Append(parser.errors, ThisDeclaration.err)
           /\ parser'.body = parser.body
           /\ parser'.current > parser.current
    /\ IsParseEnd =>
           /\ peek(parser_tokens, parser.current).kind = "Eof"
           /\ parsed'.ok <=> parser.errors = <<>>
           /\ parsed'.ok => parsed'.ast.body = parser.body
           /\ ~ parsed'.ok => parsed'.errors = parser.errors

\* C12: parse() returns Ok(Program) iff no error was recorded during the
\* whole parse, otherwise Err with every recorded error in the order
\* recorded; an iteration that records an error keeps what was parsed and
\* moves the cursor on, and parse() returns only with the cursor at Eof.
C12_BatchedParseErrors == [][C12_Step]_vars

\* A returned Err with two errors raised at different parser_tokens.
C12_Witness ==
    /\ parsed # <<>> /\ ~ parsed.ok
    /\ Len(parsed.errors) >= 2
    /\ parsed.errors[1].location.start < parsed.errors[2].location.start
    /\ parser.body # <<>>

DeclarationKeywords == {"Component", "Section", "Page"}

\* C13: after an iteration of parse() has recorded an error, no token from
\* the one the error was raised at up to the one the next iteration starts
\* at is a top-level declaration keyword: synchronize() discards none.
C13_SynchronizeKeepsKeywords ==
    [][IsParseStep /\ ~ ThisDeclaration.ok =>
           \A k \in ThisDeclaration.cur .. (parser'.current - 1) :
               parser_tokens[k + 1].kind \notin DeclarationKeywords]_vars

(***************************************************************************)
(* Single productions of the parser, applied at the first token of a       *)
(* piece of source: nodes that start with an identifier, and expressions   *)
(* of one operand followed by up to MaxOps operators and operands.         *)
(***************************************************************************)
NodeSources ==
    {
      \* an element: a
      <<"a", " ">>,
      \* an element with children: a { }
      <<"a", " ", "{", " ", "}", " ">>,
      \* an element with an attribute: a [x: "y"]
      <<"a", " ", "[", "x", ":", " ", "\"", "y", "\"", "]", " ">>,
      \* an element followed by an element: a b
      <<"a", " ", "b", " ">>,
      \* a member access: a.b
      <<"a", ".", "b", " ">>,
      \* a chain of member accesses: a.b.c
      <<"a", ".", "b", ".", "c", " ">>,
      \* a member access followed by an element: a.b c
      <<"a", ".", "b", " ", "c", " ">>,
      \* a member access followed by an operator: a.b + c
      <<"a", ".", "b", " ", "+", " ", "c", " ">>,
      \* a member access in a condition: a.b ? c : d
      <<"a", ".", "b", " ", "?", " ", "c", " ", ":", " ", "d", " ">>,
      \* a dot without a property name: a . }
      <<"a", " ", ".", " ", "}", " ">>,
      \* an identifier at the end of the input: a
      <<"a">>
    }

\* One operator of every level, two of the additive one; the other
\* comparison and equality operators come in MoreExprSources.
ExprOps ==
    {<<"+">>, <<"-">>, <<"<">>, <<"=", "=">>, <<"&", "&">>, <<"|", "|">>, <<"?">>, <<":">>}

ExprOperands == <<"a", "b", "c", "d", "e", "f">>

\* The text `a op1 b op2 c ...` of a sequence of operators.
RECURSIVE ExprText(_, _)
ExprText(ops, k) ==
    IF k > Len(ops) THEN <<>>
    ELSE <<" ">> \o ops[k] \o <<" ", ExprOperands[k + 1]>> \o ExprText(ops, k + 1)

ExprSources == {<<"a">> \o ExprText(ops, 1) : ops \in SeqsUpTo(ExprOps, MaxOps)}

MoreExprSources ==
    {
      \* a <= b > c
      <<"a", " ", "<", "=", " ", "b", " ", ">", " ", "c">>,
      \* a >= b != c
      <<"a", " ", ">", "=", " ", "b", " ", "!", "=", " ", "c">>,
      \* a != b <= c + d
      <<"a", " ", "!", "=", " ", "b", " ", "<", "=", " ", "c", " ", "+", " ", "d">>,
      \* a > b - c >= d
      <<"a", " ", ">", " ", "b", " ", "-", " ", "c", " ", ">", "=", " ", "d">>
    }

\* Operands of every kind followed by parenthesized arguments.
CallSources ==
    {
      \* a member access followed by arguments: a.b(x)
      <<"a", ".", "b", "(", "x", ")">>,
      \* a call followed by arguments: f(x)(y)
      <<"f", "(", "x", ")", "(", "y", ")">>,
      \* a call without arguments: f()
      <<"f", "(", ")">>,
      \* a number followed by arguments: 1(x)
      <<"1", "(", "x", ")">>,
      \* a string followed by arguments: "s"(x)
      <<"\"", "s", "\"", "(", "x", ")">>,
      \* a boolean followed by arguments: true(x)
      <<"t", "r", "u", "e", "(", "x", ")">>,
      \* a context path followed by arguments: ctx.a(x)
      <<"c", "t", "x", ".", "a", "(", "x", ")">>,
      \* an identifier in parentheses followed by arguments: (f)(x)
      <<"(", "f", ")", "(", "x", ")">>,
      \* calls as arguments: f(a, g(b))
      <<"f", "(", "a", ",", " ", "g", "(", "b", ")", ")">>,
      \* a call, a member access of its result, and arguments: a + f(x).b(y)
      <<"a", " ", "+", " ", "f", "(", "x", ")", ".", "b", "(", "y", ")">>
    }

ProductionInit ==
    /\ \/ source \in NodeSources
       \/ source \in ExprSources
       \/ source \in MoreExprSources
       \/ source \in CallSources
    /\ overflow_checks \in BOOLEAN
    /\ parser_tokens = <<>>
    /\ parser = <<>>
    /\ parsed = <<>>
    /\ scan = <<>>
    /\ lexed = <<>>
    /\ program = <<>>
    /\ ana = <<>>
    /\ apc = "idle"
    /\ runs = <<>>
    /\ comp = <<>>

\* Parser::new(&tokens) and self.node()
ParseNode ==
    /\ parsed = <<>>
    /\ tokenize(source).ok
    /\ parser_tokens' = tokenize(source).tokens
    /\ parsed' = [production |-> "node", result |-> node(tokenize(source).tokens, 0)]
    /\ UNCHANGED <<parser, lexVars, anaVars, comp>>

\* Parser::new(&tokens) and self.expression()
ParseExpression ==
    /\ parsed = <<>>
    /\ tokenize(source).ok
    /\ parser_tokens' = tokenize(source).tokens
    /\ parsed' = [production |-> "expression",
                  result |-> expression(tokenize(source).tokens, 0)]
    /\ UNCHANGED <<parser, lexVars, anaVars, comp>>

ProductionNext == ParseNode \/ ParseExpression

SpecProduction == ProductionInit /\ [][ProductionNext]_vars

(***************************************************************************)
(* Claims about node() and expression().                                   *)
(***************************************************************************)
\* The production p was applied at the first token, with this result.
Applied(p) == parsed # <<>> /\ parsed.production = p
Result == parsed.result

\* The kinds of the operator tokens of expressions.
OperatorKinds ==
    {"Plus", "Minus", "Lt", "Le", "Gt", "Ge", "Eq", "Ne", "And", "Or", "Question", "Colon"}

\* The text ident(.ident)* that starts at the k-th token (1-based).
RECURSIVE DottedPath(_, _)
DottedPath(ts, k) ==
    IF k + 2 <= Len(ts) /\ ts[k + 1].kind = "Dot" /\ ts[k + 2].kind = "Identifier"
    THEN ts[k].value \o <<".">> \o DottedPath(ts, k + 2)
    ELSE ts[k].value

\* C18: a node that starts with an Identifier token is parsed as a dynamic
\* Text node whose content is the dotted access path exactly when the next
\* token is Dot, and as an Element with the identifier as tag otherwise.
C18_IdentifierLookahead ==
    (Applied("node") /\ parser_tokens[1].kind = "Identifier" /\ Result.ok) =>
        IF parser_tokens[2].kind = "Dot"
        THEN /\ Result.val.type = "Text"
             /\ Result.val.is_dynamic
             /\ Result.val.content = DottedPath(parser_tokens, 1)
        ELSE /\ Result.val.type = "Element"
             /\ Result.val.tag = parser_tokens[1].value

\* The same statement for the nodes whose tokens hold no operator.
C18_HoldsWithoutOperator ==
    (Applied("node") /\ Result.ok
        /\ \A k \in 1..Result.cur : parser_tokens[k].kind \notin OperatorKinds)
    => C18_IdentifierLookahead

\* The tokens before Eof.
ExprTokens == SubSeq(parser_tokens, 1, Len(parser_tokens) - 1)

\* The tokens are an expression without parentheses: operands and operators
\* in turn, with every ':' closing a '?' and every '?' closed.
CountKind(ts, n, kind) == Cardinality({k \in 1..n : ts[k].kind = kind})
IsExpression(ts) ==
    /\ Len(ts) % 2 = 1
    /\ \A k \in 1..Len(ts) :
          IF k % 2 = 1 THEN ts[k].kind = "Identifier" ELSE ts[k].kind \in OperatorKinds
    /\ \A n \in 1..Len(ts) : CountKind(ts, n, "Colon") <= CountKind(ts, n, "Question")
    /\ CountKind(ts, Len(ts), "Colon") = CountKind(ts, Len(ts), "Question")

\* The token kind of a binary operator, and the precedence level of an
\* expression (0 binds tightest).
KindOfOperator ==
    ("Add" :> "Plus") @@ ("Sub" :> "Minus") @@ ("Lt" :> "Lt") @@ ("Le" :> "Le")
    @@ ("Gt" :> "Gt") @@ ("Ge" :> "Ge") @@ ("Eq" :> "Eq") @@ ("Ne" :> "Ne")
    @@ ("And" :> "And") @@ ("Or" :> "Or")

LevelOf(e) ==
    IF e.type = "Ternary" THEN 6
    ELSE IF e.type # "Binary" THEN 0
    ELSE IF e.operator \in {"Add", "Sub"} THEN 1
    ELSE IF e.operator \in {"Lt", "Le", "Gt", "Ge"} THEN 2
    ELSE IF e.operator \in {"Eq", "Ne"} THEN 3
    ELSE IF e.operator = "And" THEN 4
    ELSE 5

\* The leaves and operators of a tree, from left to right.
Leaf(kind, value) == <<kind, value>>
RECURSIVE YieldOf(_)
YieldOf(e) ==
    IF e.type = "Binary"
    THEN YieldOf(e.left) \o <<Leaf(KindOfOperator[e.operator], <<>>)>> \o YieldOf(e.right)
    ELSE IF e.type = "Ternary"
    THEN YieldOf(e.condition) \o <<Leaf("Question", <<>>)>> \o YieldOf(e.consequent)
         \o <<Leaf("Colon", <<>>)>> \o YieldOf(e.alternate)
    ELSE IF e.type = "Identifier" THEN <<Leaf("Identifier", e.name)>>
    ELSE <<Leaf(e.type, <<>>)>>

YieldOfTokens(ts) ==
    [k \in 1..Len(ts) |->
        Leaf(ts[k].kind, IF ts[k].kind = "Identifier" THEN ts[k].value ELSE <<>>)]

\* The tree follows the precedence order: the left operand of a binary
\* operator binds at least as tightly as the operator and the right operand
\* strictly tighter (left-associative); a ternary is no operand of a binary
\* operator and no condition of a ternary, but may be either branch of one
\* (right-associative).
RECURSIVE FollowsPrecedence(_)
FollowsPrecedence(e) ==
    IF e.type = "Binary"
    THEN /\ LevelOf(e.left) <= LevelOf(e)
         /\ LevelOf(e.right) < LevelOf(e)
         /\ FollowsPrecedence(e.left) /\ FollowsPrecedence(e.right)
    ELSE IF e.type = "Ternary"
    THEN /\ LevelOf(e.condition) < 6
         /\ FollowsPrecedence(e.condition)
         /\ FollowsPrecedence(e.consequent)
         /\ FollowsPrecedence(e.alternate)
    ELSE TRUE

\* C19: for tokens that are an expression, expression() returns Ok at Eof
\* with the one tree that has the tokens as its leaves and operators, in
\* order, and that follows the precedence order postfix, additive,
\* comparison, equality, and, or, ternary with left-associative binary levels
\* and a right-associative ternary.
C19_PrecedenceAndAssociativity ==
    (Applied("expression") /\ IsExpression(ExprTokens)) =>
        /\ Result.ok
        /\ Result.cur = Len(parser_tokens) - 1
        /\ YieldOf(Result.val) = YieldOfTokens(ExprTokens)
        /\ FollowsPrecedence(Result.val)

\* expression() has parsed a ? b : c ? d : e, with the second ternary as the
\* alternate of the first.
C19_Witness ==
    /\ Applied("expression")
    /\ YieldOfTokens(ExprTokens)
          = <<Leaf("Identifier", <<"a">>), Leaf("Question", <<>>),
              Leaf("Identifier", <<"b">>), Leaf("Colon", <<>>),
              Leaf("Identifier", <<"c">>), Leaf("Question", <<>>),
              Leaf("Identifier", <<"d">>), Leaf("Colon", <<>>),
              Leaf("Identifier", <<"e">>)>>
    /\ Result.ok
    /\ Result.val.type = "Ternary"
    /\ Result.val.condition.type = "Identifier"
    /\ Result.val.alternate.type = "Ternary"

\* An expression and the expressions it is built from.
RECURSIVE SubExprs(_)
SubExprs(e) ==
    {e} \cup
    (IF e.type = "Binary" THEN SubExprs(e.left) \cup SubExprs(e.right)
     ELSE IF e.type = "Ternary"
          THEN SubExprs(e.condition) \cup SubExprs(e.consequent) \cup SubExprs(e.alternate)
     ELSE IF e.type = "MemberAccess" THEN SubExprs(e.object)
     ELSE IF e.type = "Call"
          THEN UNION {SubExprs(e.arguments[i]) : i \in 1..Len(e.arguments)}
     ELSE {})

IsIdentifierName(s) ==
    /\ s # <<>>
    /\ s[1] \in Lower \cup {"_"}
    /\ \A k \in 1..Len(s) : s[k] \in IdentChar

\* The cursors at which the next token is a '('.
AtLParen == {k \in 0..(Len(parser_tokens) - 1) : parser_tokens[k + 1].kind = "LParen"}

\* C28: postfix builds a Call only when the expression parsed so far is an
\* Identifier: with any other expression (a member access, a literal, a
\* context path, a call) in front of a '(' the loop ends with that
\* expression and the cursor where it was; on an Identifier it consumes the
\* '(' and, when the arguments parse, builds a Call of the identifier's
\* name.  Every callee of a parsed expression is a single identifier name.
C28_CallOnlyOnIdentifier ==
    (Applied("expression") /\ Result.ok) =>
        /\ \A c \in SubExprs(Result.val) : c.type = "Call" => IsIdentifierName(c.callee)
        /\ \A k \in AtLParen : \A e \in SubExprs(Result.val) :
              LET r == postfix_loop(parser_tokens, k, e.loc, e)
              IN  IF e.type = "Identifier"
                  THEN r.ok => /\ r.cur > k
                               /\ \E c \in SubExprs(r.val) :
                                      /\ c.type = "Call"
                                      /\ c.callee = e.name
                                      /\ c.loc.start = e.loc.start
                  ELSE r = POk(e, k)

\* expression() has returned a Call with the cursor at a further '(', which
\* it left where it is: f(x)(y).
C28_Witness ==
    /\ Applied("expression") /\ Result.ok
    /\ Result.val.type = "Call"
    /\ Result.cur \in AtLParen
    /\ Result.cur >= 1 /\ parser_tokens[Result.cur].kind = "RParen"

(***************************************************************************)
(* Claims about error recovery and the cursor of the parser.               *)
(***************************************************************************)
IsUnexpected(t) == t.kind = "Question"
IsExpected(t) == ~ IsUnexpected(t)

\* The source is well-formed but for one token that no production of a
\* declaration accepts (a '?' in a block).
OneUnexpectedToken ==
    /\ Len(SelectSeq(parser_tokens, IsUnexpected)) = 1
    /\ parse(SelectSeq(parser_tokens, IsExpected)).ok

\* C22: a production that fails inside a declaration records one error and
\* synchronize discards the tokens up to and including the '}' that closes
\* the malformed construct, so that a single unexpected token in a block
\* nested at any depth of an otherwise well-formed declaration yields
\* exactly one parse error: the braces that close the enclosing blocks raise
\* no further error.
C22_OneErrorPerMalformedConstruct ==
    (parsed # <<>> /\ OneUnexpectedToken) => (~ parsed.ok /\ Len(parsed.errors) = 1)

\* The index (0-based, as self.current) of the first Eof token.
FirstEof ==
    CHOOSE i \in 0..(Len(parser_tokens) - 1) :
        /\ parser_tokens[i + 1].kind = "Eof"
        /\ \A j \in 0..(i - 1) : parser_tokens[j + 1].kind # "Eof"

\* The cursor after the advance() that synchronize() starts with, where its
\* previous() is first evaluated.
AfterFirstAdvance == advance(parser_tokens, ThisDeclaration.cur)

C23_Step ==
    /\ parser # <<>> =>
           /\ parser_tokens # <<>>
           /\ 0 <= parser.current /\ parser.current <= FirstEof
           /\ parser.current < Len(parser_tokens)
    /\ IsParseStep =>
           /\ parser.current <= ThisDeclaration.cur
           /\ ThisDeclaration.cur <= parser'.current
           /\ parser'.current <= FirstEof
           /\ ThisDeclaration.ok => ThisDeclaration.cur >= 1
           /\ ~ ThisDeclaration.ok =>
                  /\ AfterFirstAdvance >= 1
                  /\ AfterFirstAdvance <= parser'.current

\* C23: on tokens that end with Eof, the cursor of parse() stays between 0
\* and the index of the first Eof token, so that peek() reads no further
\* than the last token; the cursor only moves forward, and previous() is
\* evaluated at a cursor >= 1: every declaration that returns Ok has
\* consumed a token before its location_from, and the advance() that
\* synchronize starts with leaves the cursor >= 1 also when it is called at
\* Eof, where it does not move.
C23_CursorInBounds == [][C23_Step]_vars

\* synchronize() was called with the cursor at Eof: the error was raised at
\* the end of the tokens, after an identifier whose lookahead read the Eof
\* token, and the cursor stayed there.
C23_Witness ==
    /\ parsed # <<>> /\ ~ parsed.ok
    /\ parser.current = FirstEof
    /\ FirstEof = Len(parser_tokens) - 1
    /\ parsed.errors[Len(parsed.errors)].location = parser_tokens[Len(parser_tokens)].location
    /\ Len(parser_tokens) >= 2
    /\ parser_tokens[Len(parser_tokens) - 1].kind = "Identifier"

\* The number of tokens in front of the Eof token that ends the loop of parse().
Remaining(ps) == Len(parser_tokens) - 1 - ps.current

\* The token positions the iteration of parse() that is being taken passes.
Passed == parser.current .. (parser'.current - 1)

C24_Step ==
    IsParseStep =>
        \* the declaration loop
        /\ parser'.current > parser.current
        /\ Remaining(parser') < Remaining(parser) /\ Remaining(parser') >= 0
        \* synchronize
        /\ (~ ThisDeclaration.ok /\ ~ is_at_end(parser_tokens, ThisDeclaration.cur))
               => parser'.current > ThisDeclaration.cur
        \* the block loop: a node that is parsed consumes a token
        /\ \A k \in Passed :
               node(parser_tokens, k).ok => node(parser_tokens, k).cur > k
        \* the list, operator and postfix loops consume a ',' an operator, a
        \* '.' or a '(' per iteration; an expression that is parsed consumes
        \* a token
        /\ \A k \in Passed :
               expression(parser_tokens, k).ok => expression(parser_tokens, k).cur > k

GeneratedFile(path) == [path |-> path]

CompileOptions(output_format, generate_router, generate_events, split_templates) ==
    [output_format |-> output_format, generate_router |-> generate_router,
     generate_events |-> generate_events, split_templates |-> split_templates]

AllOptions ==
    {CompileOptions(f, r, e, t) : f \in {"Typescript", "Html"}, r \in BOOLEAN,
                                  e \in BOOLEAN, t \in BOOLEAN}

RECURSIVE analyze_nodes(_)
\* analyze_nodes(): whether the nodes set has_events.
analyze_nodes(nodes) ==
    \E k \in 1..Len(nodes) :
        LET n == nodes[k]
        IN  IF n.type = "Element"
            THEN \/ \E j \in 1..Len(n.attributes) : starts_with(n.attributes[j].name, "on")
                 \/ analyze_nodes(n.children)
            ELSE IF n.type = "If"
            THEN \/ analyze_nodes(n.consequent)
                 \/ n.alternate.kind = "Block" /\ analyze_nodes(n.alternate.nodes)
                 \/ n.alternate.kind = "ElseIf" /\ analyze_nodes(n.alternate.stmt.consequent)
            ELSE IF n.type = "Each" THEN analyze_nodes(n.body)
            ELSE FALSE

program_has_events(prog) == \E i \in 1..Len(prog.body) : analyze_nodes(prog.body[i].body)

LowerCase == <<"a", "b", "c", "d", "e", "f", "g", "h", "i", "j", "k", "l", "m",
               "n", "o", "p", "q", "r", "s", "t", "u", "v", "w", "x", "y", "z">>
UpperCase == <<"A", "B", "C", "D", "E", "F", "G", "H", "I", "J", "K", "L", "M",
               "N", "O", "P", "Q", "R", "S", "T", "U", "V", "W", "X", "Y", "Z">>
to_lowercase(text) ==
    [k \in 1..Len(text) |->
        IF text[k] \in Upper
        THEN LowerCase[CHOOSE j \in 1..Len(UpperCase) : UpperCase[j] = text[k]]
        ELSE text[k]]

\* html::generate: nothing without pages; else the page templates (split
\* mode) and the main file named after the first page.
html_generate(prog, options) ==
    LET pages == SelectSeq(prog.body, LAMBDA d : d.type = "Page")
        main == GeneratedFile(to_lowercase(pages[1].name) \o <<".", "h", "t", "m", "l">>)
        templates ==
            [k \in 1..Len(pages) |->
                GeneratedFile(to_lowercase(pages[k].name)
                              \o <<".", "t", "e", "m", "p", "l", "a", "t", "e",
                                   ".", "h", "t", "m", "l">>)]
    IN  IF pages = <<>> THEN <<>>
        ELSE IF options.split_templates THEN Append(templates, main)
        ELSE <<main>>

generate(prog, symbols, options) ==
    IF options.output_format = "Html" THEN html_generate(prog, options)
    ELSE <<GeneratedFile("templates")>>
         \o (IF options.generate_router THEN <<GeneratedFile("router")>> ELSE <<>>)
         \o (IF options.generate_events /\ program_has_events(prog)
             THEN <<GeneratedFile("events")>> ELSE <<>>)

(***************************************************************************)
(* lib.rs: compile_with_options().  The record c holds its locals, the     *)
(* stages it has called so far and, once it has returned, its result.      *)
(***************************************************************************)
CompileResult(files, diagnostics, success) ==
    [files |-> files, diagnostics |-> diagnostics, success |-> success]

NewCompile(options) ==
    [pc |-> "tokenize", options |-> options, diagnostics |-> <<>>, tokens |-> <<>>,
     ast |-> <<>>, symbols |-> <<>>, stages |-> <<>>, result |-> <<>>]

\* for err in errors { diagnostics.push(Diagnostic { severity: Error, .. code }) }
push_errors(diagnostics, errors, code) ==
    diagnostics \o [k \in 1..Len(errors) |->
                       Diagnostic("Error", errors[k].message, errors[k].location, code)]

\* The early return of a CompileResult without files.
return_failure(c, diagnostics) ==
    [c EXCEPT !.pc = "done", !.diagnostics = diagnostics,
              !.result = CompileResult(<<>>, diagnostics, FALSE)]

\* Phase 1: lexing.
compile_tokenize(c, src) ==
    LET r == tokenize(src)
        c1 == [c EXCEPT !.stages = Append(@, "tokenize")]
    IN  IF r.panicked THEN [c1 EXCEPT !.pc = "panicked"]
        ELSE IF r.ok THEN [c1 EXCEPT !.tokens = r.tokens, !.pc = "parse"]
        ELSE return_failure(c1, push_errors(c.diagnostics, r.errors, "E001"))

\* The mutant of compile_parse: the return after a parse error is missing,
\* and the analysis runs on an empty program.
compile_parse_no_return(c) ==
    LET r == parse(c.tokens)
        c1 == [c EXCEPT !.stages = Append(@, "parse")]
    IN  IF r.ok THEN [c1 EXCEPT !.ast = r.ast, !.pc = "analyze"]
        ELSE [c1 EXCEPT !.ast = Program(<<>>, c.tokens[1].location), !.pc = "analyze",
                        !.diagnostics = push_errors(c.diagnostics, r.errors, "E002")]

\* Phase 2: parsing.
compile_parse(c) ==
    LET r == parse(c.tokens)
        c1 == [c EXCEPT !.stages = Append(@, "parse")]
    IN  IF r.ok THEN [c1 EXCEPT !.ast = r.ast, !.pc = "analyze"]
        ELSE return_failure(c1, push_errors(c.diagnostics, r.errors, "E002"))

\* The mutant of has_errors: any diagnostic counts as an error.
has_errors_any(diagnostics) == diagnostics # <<>>

\* diagnostics.iter().any(|d| d.severity == Severity::Error)
has_errors(diagnostics) ==
    \E k \in 1..Len(diagnostics) : diagnostics[k].severity = "Error"

\* analyzer::analyze(&ast), the HashMap of the symbol table iterating in the
\* order that `order` picks among the symbol names.
analyze(prog, order) ==
    LET a == resolve_references(collect_declarations(NewAnalyzer, prog), prog)
    IN  validate(a, prog, [i \in 1..Len(order) |-> a.symbols[order[i]]])

\* The symbol names analyze() will hold when it validates.
analyze_names(prog) ==
    DOMAIN resolve_references(collect_declarations(NewAnalyzer, prog), prog).symbols

\* Phase 3: analysis, and the check for errors.
compile_analyze(c, order) ==
    LET a == analyze(c.ast, order)
        diagnostics == c.diagnostics \o a.diagnostics
        c1 == [c EXCEPT !.stages = Append(@, "analyze"), !.symbols = a.symbols]
    IN  IF has_errors(diagnostics) THEN return_failure(c1, diagnostics)
        ELSE [c1 EXCEPT !.diagnostics = diagnostics, !.pc = "generate"]

\* Phase 4: code generation, and the return of the result.
compile_generate(c) ==
    LET files == generate(c.ast, c.symbols, c.options)
    IN  [c EXCEPT !.stages = Append(@, "generate"), !.pc = "done",
                  !.result = CompileResult(files, c.diagnostics, TRUE)]

(***************************************************************************)
(* The sources given to compile_with_options: up to MaxItems pieces, each  *)
(* a declaration or a fragment that one of the stages rejects.             *)
(***************************************************************************)
Snippets ==
    {
      \* an unused component: component A { }
      <<"c", "o", "m", "p", "o", "n", "e", "n", "t", " ", "A", " ", "{", " ", "}", " ">>,
      \* a component that uses itself: component A { A }
      <<"c", "o", "m", "p", "o", "n", "e", "n", "t", " ", "A", " ", "{", " ", "A", " ",
        "}", " ">>,
      \* a component that uses A: component B { A }
      <<"c", "o", "m", "p", "o", "n", "e", "n", "t", " ", "B", " ", "{", " ", "A", " ",
        "}", " ">>,
      \* a page: page h "/" { }
      <<"p", "a", "g", "e", " ", "h", " ", "\"", "/", "\"", " ", "{", " ", "}", " ">>,
      \* a page that uses A: page h "/" { A }
      <<"p", "a", "g", "e", " ", "h", " ", "\"", "/", "\"", " ", "{", " ", "A", " ", "}",
        " ">>,
      \* a page whose route lacks the slash: page g "x" { }
      <<"p", "a", "g", "e", " ", "g", " ", "\"", "x", "\"", " ", "{", " ", "}", " ">>,
      \* a page with an event handler: page e "/e" { b [onClick: f] }
      <<"p", "a", "g", "e", " ", "e", " ", "\"", "/", "e", "\"", " ", "{", " ", "b", " ",
        "[", "o", "n", "C", "l", "i", "c", "k", ":", " ", "f", "]", " ", "}", " ">>,
      \* a section with a text block: section S { {{ a }} }
      <<"s", "e", "c", "t", "i", "o", "n", " ", "S", " ", "{", " ", "{", "{", " ", "a",
        " ", "}", "}", " ", "}", " ">>,
      \* an invalid character: $
      <<"$", " ">>,
      \* an unterminated text block: {{ a
      <<"{", "{", " ", "a", " ">>,
      \* a stray brace: }
      <<"}", " ">>,
      \* a component without a name: component {
      <<"c", "o", "m", "p", "o", "n", "e", "n", "t", " ", "{", " ">>,
      \* a page without a route: page h { }
      <<"p", "a", "g", "e", " ", "h", " ", "{", " ", "}", " ">>
    }

CompileSources == {Flatten(cs) : cs \in SeqsUpTo(Snippets, MaxItems)}

(***************************************************************************)
(* compile_with_options as a state machine: one step per stage.            *)
(***************************************************************************)
CompileInit ==
    /\ source \in CompileSources
    /\ \E options \in AllOptions : comp = NewCompile(options)
    /\ overflow_checks \in BOOLEAN
    /\ scan = <<>>
    /\ lexed = <<>>
    /\ program = <<>>
    /\ ana = <<>>
    /\ apc = "idle"
    /\ runs = <<>>
    /\ parser_tokens = <<>>
    /\ parser = <<>>
    /\ parsed = <<>>

CompileTokenize ==
    /\ comp # <<>> /\ comp.pc = "tokenize"
    /\ comp' = compile_tokenize(comp, source)
    /\ UNCHANGED <<lexVars, anaVars, parVars>>

CompileParse ==
    /\ comp # <<>> /\ comp.pc = "parse"
    /\ comp' = compile_parse(comp)
    /\ UNCHANGED <<lexVars, anaVars, parVars>>

CompileAnalyze ==
    /\ comp # <<>> /\ comp.pc = "analyze"
    /\ \E order \in Orders(analyze_names(comp.ast)) : comp' = compile_analyze(comp, order)
    /\ UNCHANGED <<lexVars, anaVars, parVars>>

CompileGenerate ==
    /\ comp # <<>> /\ comp.pc = "generate"
    /\ comp' = compile_generate(comp)
    /\ UNCHANGED <<lexVars, anaVars, parVars>>

CompileNext ==
    \/ CompileTokenize
    \/ CompileParse
    \/ CompileAnalyze
    \/ CompileGenerate

SpecCompile == CompileInit /\ [][CompileNext]_vars

(***************************************************************************)
(* Claims about the driver.                                                *)
(***************************************************************************)
Returned == comp # <<>> /\ comp.pc = "done"

HasSeverity(diagnostics, severity) ==
    \E k \in 1..Len(diagnostics) : diagnostics[k].severity = severity

\* C1: compile_with_options returns success = true exactly when its
\* diagnostics hold no diagnostic of severity Error; files is empty whenever
\* success is false; and without an Error diagnostic (warnings or none) the
\* code generation has run.
C1_SuccessIffNoErrorDiagnostic ==
    Returned =>
        /\ comp.result.success <=> ~ HasSeverity(comp.result.diagnostics, "Error")
        /\ ~ comp.result.success => comp.result.files = <<>>
        /\ ~ HasSeverity(comp.result.diagnostics, "Error") =>
               /\ "generate" \in Range(comp.stages)
               /\ comp.result.files = generate(comp.ast, comp.symbols, comp.options)

\* A compilation that returned success with a warning among its diagnostics
\* and with generated files.
C1_Witness ==
    /\ Returned
    /\ comp.result.success
    /\ HasSeverity(comp.result.diagnostics, "Warning")
    /\ comp.result.files # <<>>

StageOrder == <<"tokenize", "parse", "analyze", "generate">>

\* The diagnostics that report the errors of a stage under a code.
ErrorsAs(errors, code) ==
    [k \in 1..Len(errors) |->
        [severity |-> "Error", message |-> errors[k].message,
         location |-> errors[k].location, code |-> code]]

\* C2: the stages run in the order tokenize, parse, analyze, generate; when
\* tokenize returns Err, compile_with_options returns right away, with
\* exactly the lexical errors, in order, as Error diagnostics of code E001;
\* when parse returns Err, it returns right away, with exactly the parse
\* errors, in order, as Error diagnostics of code E002.
C2_StagesInOrderAndShortCircuit ==
    comp # <<>> =>
        LET lex == tokenize(source)
            par == parse(lex.tokens)
        IN  /\ comp.stages = SubSeq(StageOrder, 1, Len(comp.stages))
            /\ Len(comp.stages) >= 1 /\ ~ lex.panicked /\ ~ lex.ok =>
                   /\ Returned
                   /\ comp.stages = <<"tokenize">>
                   /\ comp.result.diagnostics = ErrorsAs(lex.errors, "E001")
            /\ Len(comp.stages) >= 2 /\ ~ par.ok =>
                   /\ Returned
                   /\ comp.stages = <<"tokenize", "parse">>
                   /\ comp.result.diagnostics = ErrorsAs(par.errors, "E002")

\* A compilation that returned after the parser reported two errors.
C2_Witness ==
    /\ Returned
    /\ comp.stages = <<"tokenize", "parse">>
    /\ Len(comp.result.diagnostics) = 2
    /\ comp.result.diagnostics[1].location # comp.result.diagnostics[2].location

=============================================================================
